---- MODULE Spec2Model ----
(***************************************************************************)
(* A model of the asynchronous media-processing pipeline of the            *)
(* transcribe bot: the IAM token cache (src/services/iam.py) and the task  *)
(* queue with its worker pool (src/services/queue.py).                     *)
(*                                                                         *)
(* The program runs on one asyncio event loop, so the code between two     *)
(* suspension points (an await that really waits) is one atomic step.      *)
(* Every action below is such a step.                                      *)
(***************************************************************************)
EXTENDS Integers, Sequences, FiniteSets, TLC

(***************************************************************************)
(* Bounds of the model.                                                    *)
(***************************************************************************)
NumCallers == 3
MaxTicks == 2
NumWorkers == 2
MaxJobs == 2
MaxParts == 2
MaxWait == 6
MaxTextLen == 8
MaxRuns == 2
MaxFailing == 2
MaxPolls == 3
MaxChunks == 2
MaxStarts == 2
MaxStops == 1
MaxFiles == 3
\* The length ceiling and the overlap of the analysis chunks, scaled down from
\* 24000 and 500 (yandexgpt.py:12-13); the overlap stays at most half the ceiling.
MAX_INPUT_CHARS == 4
CHUNK_OVERLAP_CHARS == 1

(***************************************************************************)
(* Program constants.                                                      *)
(***************************************************************************)
TOKEN_LIFETIME_SECONDS == 3600
TOKEN_REFRESH_MARGIN == 300
POLL_INTERVAL == 5
MAX_POLL_TIME == 1800
\* 0.002542 roubles per second (queue.py:22), in millionths of a rouble.
SPEECHKIT_COST_PER_SEC == 2542
\* `max(segment_duration, 60)` (audio.py:180)
MIN_SEGMENT_SECONDS == 60

VARIABLES
    \* ---- IAMTokenManager (iam.py) ----
    token,          \* self._token: NoToken (None) or the token of an exchange
    expires_at,     \* self._expires_at
    locked,         \* self._lock: asyncio.Lock._locked
    waiters,        \* self._lock: asyncio.Lock._waiters, in arrival order
    now,            \* time.time(), in seconds
    cpc,            \* each get_token() call: where it is suspended
    req,            \* each call: the exchange request it made (0: none)
    result,         \* each call: the token it returned
    exchanges,      \* number of exchange requests sent so far
    \* history of the token cache
    ticks,          \* number of clock steps taken
    cachedAtStart,  \* each call: self._token when the call started
    forced,         \* each call: it is the first call started after an invalidate()
    pendingForce,   \* invalidate() has returned and no get_token() started since
    disturbed,      \* an invalidate(), a failed exchange or an expiry has happened
    \* ---- TaskQueue (queue.py) ----
    phase,          \* "new", "running" (start() done), "stopping" (stop() waits), "stopped"
    queue,          \* self._queue: the tasks waiting, oldest first
    active,         \* self._active_tasks: the task ids being processed
    created,        \* number of ProcessingTasks enqueued so far (task j is the j-th)
    wpc,            \* each worker: the await it is suspended at
    wjob,           \* each worker: `task` (NoJob: none)
    cancelReq,      \* each worker: worker.cancel() was called and is not yet delivered
    frame,          \* each worker: the locals of the _process_file call it is in,
                    \*   and the history of that call (see EmptyFrame)
    taken,          \* history: the tasks in the order the workers dequeued them
    task,           \* history of each task (see NewTask)
    \* ---- the recognition loop of one _process_file call and its timeout
    \*      monitors (queue.py) ----
    rec,            \* the loop: len(remote_keys), `i`, and the await it is at
    watcher,        \* each segment: the `timeout_task` created for it (see NoWatcher)
    \* ---- one SpeechKitClient._poll_until_done call (speechkit.py) ----
    poll,           \* its constants, `elapsed`, the await it is at, and its history
                    \*   (see NoPoll)
    \* ---- one YandexGPTClient.analyze / _split_text call (yandexgpt.py) ----
    transcription_text,  \* the input text, a sequence of characters
    gpt,            \* the call: where it is, `chunks`, and the requests sent (see NoCall)
    \* ---- one worker's loop body with the data of its task (queue.py) ----
    job,            \* the task the worker is processing: the locals of its
                    \*   _process_file call, the record saved, and a log (see NoRun)
    prevFailText,   \* the text of the failure message of the worker's previous task
    \* ---- one SpeechKitClient.recognize call (speechkit.py) ----
    recognition,    \* the call: where it is and the requests it sent (see NoRecognition)
    \* ---- one AudioProcessor.split_file call (audio.py) ----
    splitting,      \* the call: its arguments, what it probed and did (see NoSplit)
    \* ---- file_handler and the workers of a TaskQueue (handlers.py, queue.py) ----
    pool            \* the workers, the queue, the tasks and the files of the
                    \*   temporary directory (see NoPool)

iamVars == <<token, expires_at, locked, waiters, now, cpc, req, result, exchanges,
             ticks, cachedAtStart, forced, pendingForce, disturbed>>

queueVars == <<phase, queue, active, created, wpc, wjob, cancelReq, frame, taken, task>>

monitorVars == <<rec, watcher>>

gptVars == <<transcription_text, gpt>>

jobVars == <<job, prevFailText>>

vars == <<iamVars, queueVars, monitorVars, poll, gptVars, jobVars, recognition, splitting,
          pool>>

\* What the operations of one component leave alone.
notIamVars == <<queueVars, monitorVars, poll, gptVars, jobVars, recognition, splitting,
    pool>>
notQueueVars == <<iamVars, monitorVars, poll, gptVars, jobVars, recognition, splitting,
    pool>>
notMonitorVars == <<iamVars, queueVars, poll, gptVars, jobVars, recognition, splitting,
    pool>>
notPollVars == <<iamVars, queueVars, monitorVars, gptVars, jobVars, recognition, splitting,
    pool>>
notGptVars == <<iamVars, queueVars, monitorVars, poll, jobVars, recognition, splitting,
    pool>>
notRecognizeVars == <<queueVars, monitorVars, poll, gptVars, jobVars, splitting,
    pool>>
notSplitVars == <<iamVars, queueVars, monitorVars, poll, gptVars, jobVars, recognition,
    pool>>
notPoolVars == <<iamVars, queueVars, monitorVars, poll, gptVars, jobVars, recognition,
    splitting>>
notJobVars == <<iamVars, queueVars, monitorVars, poll, gptVars, recognition, splitting,
    pool>>

(***************************************************************************)
(* IAMTokenManager                                                         *)
(***************************************************************************)
Callers == 1..NumCallers

NoToken == 0

\* The clock steps: one second, and one second less than a cached lifetime.
TickDeltas == {1, TOKEN_LIFETIME_SECONDS - TOKEN_REFRESH_MARGIN - 1}

\* Mutant: a cached token is returned whatever the time.
TokenNeverExpires == token # NoToken

\* `self._token and time.time() < self._expires_at`
TokenValid == token # NoToken /\ now < expires_at

\* Mutant: the check is not repeated after the lock is acquired.
RecheckSkipped == FALSE

\* The check repeated after the lock is acquired.
Recheck == TokenValid

\* Mutant: the lock is entered without looking at its state.
CanAcquireAlways == TRUE

\* asyncio.Lock.acquire takes the lock at once when it is free and nobody waits.
CanAcquire == ~locked /\ waiters = <<>>

\* Mutant: the expiry is the nominal lifetime, without the margin.
ExpiryWithoutMargin(t) == t + TOKEN_LIFETIME_SECONDS

\* Mutant: a failed exchange drops the cached token.
DroppedOnFailure(tok) == NoToken

\* self._token after a failed exchange: the assignment of line 97 is not
\* reached, the field keeps its value.
CachedAfterFailure(tok) == tok

\* `time.time() + TOKEN_LIFETIME_SECONDS - TOKEN_REFRESH_MARGIN`
ExpiryOf(t) == t + TOKEN_LIFETIME_SECONDS - TOKEN_REFRESH_MARGIN

InitIAM ==
    /\ token = NoToken
    /\ expires_at = 0
    /\ locked = FALSE
    /\ waiters = <<>>
    /\ now = 0
    /\ cpc = [c \in Callers |-> "idle"]
    /\ req = [c \in Callers |-> 0]
    /\ result = [c \in Callers |-> NoToken]
    /\ exchanges = 0
    /\ ticks = 0
    /\ cachedAtStart = [c \in Callers |-> NoToken]
    /\ forced = [c \in Callers |-> FALSE]
    /\ pendingForce = FALSE
    /\ disturbed = FALSE

\* The body of `async with self._lock:` once caller c holds the lock, up to the
\* await of the exchange or to the return that releases the lock.
UnderLock(c) ==
    IF Recheck
    THEN /\ result' = [result EXCEPT ![c] = token]
         /\ cpc' = [cpc EXCEPT ![c] = "returned"]
         /\ locked' = FALSE
         /\ UNCHANGED <<req, exchanges>>
    ELSE /\ exchanges' = exchanges + 1
         /\ req' = [req EXCEPT ![c] = exchanges + 1]
         /\ cpc' = [cpc EXCEPT ![c] = "exchanging"]
         /\ locked' = TRUE
         /\ UNCHANGED result

\* get_token() is called: the first check, then the lock.
GetTokenStart(c) ==
    /\ UNCHANGED notIamVars
    /\ cpc[c] = "idle"
    /\ cachedAtStart' = [cachedAtStart EXCEPT ![c] = token]
    /\ forced' = [forced EXCEPT ![c] = pendingForce]
    /\ pendingForce' = FALSE
    /\ IF TokenValid
       THEN /\ result' = [result EXCEPT ![c] = token]
            /\ cpc' = [cpc EXCEPT ![c] = "returned"]
            /\ UNCHANGED <<locked, waiters, req, exchanges>>
       ELSE IF CanAcquire
            THEN UnderLock(c) /\ UNCHANGED waiters
            ELSE /\ waiters' = Append(waiters, c)
                 /\ cpc' = [cpc EXCEPT ![c] = "waiting"]
                 /\ UNCHANGED <<locked, req, result, exchanges>>
    /\ UNCHANGED <<token, expires_at, now, ticks, disturbed>>

\* The lock was released and the first waiter resumes inside acquire().
LockGranted(c) ==
    /\ UNCHANGED notIamVars
    /\ cpc[c] = "waiting"
    /\ ~locked
    /\ waiters # <<>> /\ Head(waiters) = c
    /\ waiters' = Tail(waiters)
    /\ UnderLock(c)
    /\ UNCHANGED <<token, expires_at, now, ticks, cachedAtStart, forced,
                   pendingForce, disturbed>>

\* The exchange answers 200 with an iamToken: cache it, release, return.
ExchangeOk(c) ==
    /\ UNCHANGED notIamVars
    /\ cpc[c] = "exchanging"
    /\ token' = req[c]
    /\ expires_at' = ExpiryOf(now)
    /\ result' = [result EXCEPT ![c] = req[c]]
    /\ cpc' = [cpc EXCEPT ![c] = "returned"]
    /\ locked' = FALSE
    /\ UNCHANGED <<waiters, now, req, exchanges, ticks, cachedAtStart, forced,
                   pendingForce, disturbed>>

\* The exchange answers non-200 or without iamToken: IAMTokenError leaves the
\* `async with`, which releases the lock.
ExchangeFail(c) ==
    /\ UNCHANGED notIamVars
    /\ cpc[c] = "exchanging"
    /\ cpc' = [cpc EXCEPT ![c] = "raised"]
    /\ token' = CachedAfterFailure(token)
    /\ locked' = FALSE
    /\ disturbed' = TRUE
    /\ UNCHANGED <<expires_at, waiters, now, req, result, exchanges, ticks,
                   cachedAtStart, forced, pendingForce>>

\* invalidate(): synchronous, takes no lock.
Invalidate ==
    /\ UNCHANGED notIamVars
    /\ token' = NoToken
    /\ expires_at' = 0
    /\ pendingForce' = TRUE
    /\ disturbed' = TRUE
    /\ UNCHANGED <<locked, waiters, now, cpc, req, result, exchanges, ticks,
                   cachedAtStart, forced>>

\* Time passes.
Tick ==
    /\ UNCHANGED notIamVars
    /\ ticks < MaxTicks
    /\ \E d \in TickDeltas :
          /\ now' = now + d
          /\ disturbed' = (disturbed \/ (token # NoToken /\ now + d >= expires_at))
    /\ ticks' = ticks + 1
    /\ UNCHANGED <<token, expires_at, locked, waiters, cpc, req, result, exchanges,
                   cachedAtStart, forced, pendingForce>>

NextIAM ==
    \/ \E c \in Callers : GetTokenStart(c)
    \/ \E c \in Callers : LockGranted(c)
    \/ \E c \in Callers : ExchangeOk(c)
    \/ \E c \in Callers : ExchangeFail(c)
    \/ Invalidate
    \/ Tick


(***************************************************************************)
(* TaskQueue                                                               *)
(***************************************************************************)
Workers == 1..NumWorkers
Jobs == 1..MaxJobs
NoJob == 0

\* The transcripts recognize() may return for a segment.
Texts == {"", "a"}

Range(s) == {s[i] : i \in DOMAIN s}

\* The local temporary files of one task: the downloaded input (file_path), the
\* converted audio (ogg_path) and the files of the parts directory.
InputFile == <<"input", 0>>
OggFile == <<"ogg", 0>>
PartFile(i) == <<"part", i>>

\* The awaits of _send_message inside _process_file, and the awaits of the stages.
MsgPcs == {"msg_extract", "msg_split", "msg_upload", "msg_rec", "msg_analyze",
           "msg_result", "msg_done"}
StagePcs == {"convert", "duration", "split", "recognize", "analyze", "persist"}
PipelinePcs == MsgPcs \cup StagePcs

\* The locals of a _process_file call, lines 128-130 and 167, with the history of
\* the call: the stage events in order, <<i, text>> for each transcript that
\* recognize() returned, and the texts analyze() was called with.
\* `uploaded` is what upload_file() stored for the task and `disk` the local
\* files of the task that exist. What is kept of the call once it has ended,
\* until the worker's next step, is its cleanup: the remote keys delete_file()
\* was called for, the uploaded keys it was not called for, the local files the
\* cleanup did not try to remove, and whether one of its calls raised (and was
\* swallowed).
EmptyFrame ==
    [parts |-> <<>>, part_files |-> <<>>, remote_keys |-> <<>>, all_texts |-> <<>>,
     i |-> 0, stages |-> <<>>, heard |-> {}, analyzed |-> <<>>,
     uploaded |-> {}, disk |-> {}, ended |-> FALSE, delAttempted |-> {},
     keptKeys |-> {}, keptFiles |-> {}, cleanupErrs |-> FALSE]

\* The frame of a call that starts: the handler has downloaded the input file.
NewFrame == [EmptyFrame EXCEPT !.disk = {InputFile}]

\* What is recorded of a task: what enqueue() returned for it, how many tasks had
\* been dequeued by then, how far it is ("none", "queued", "running", "succeeded",
\* "failed", "cancelled"), the errors its pipeline raised, the failure
\* notifications sent for it and the runs of the cleanup phase for it.
NewTask(pos, before) ==
    [position |-> pos, takenBefore |-> before, outcome |-> "queued", errors |-> 0,
     failNotes |-> 0, cleanups |-> 0]

NotYet ==
    [position |-> 0, takenBefore |-> 0, outcome |-> "none", errors |-> 0,
     failNotes |-> 0, cleanups |-> 0]

InitQueue ==
    /\ phase = "new"
    /\ queue = <<>>
    /\ active = {}
    /\ created = 0
    /\ wpc = [w \in Workers |-> "none"]
    /\ wjob = [w \in Workers |-> NoJob]
    /\ cancelReq = [w \in Workers |-> FALSE]
    /\ frame = [w \in Workers |-> EmptyFrame]
    /\ taken = <<>>
    /\ task = [j \in Jobs |-> NotYet]

\* Mutant: the position is read before the put.
PositionBeforePut(q) == Len(q) - 1

\* `self._queue.qsize()` right after the put.
Position(q) == Len(q)

\* enqueue(): put() on the unbounded queue never waits, so put and qsize are one step.
Enqueue ==
    /\ created < MaxJobs
    /\ LET j == created + 1
           q == Append(queue, j)
       IN /\ queue' = q
          /\ created' = j
          /\ task' = [task EXCEPT ![j] = NewTask(Position(q), Len(taken))]
    /\ UNCHANGED <<phase, active, wpc, wjob, cancelReq, frame, taken>>
    /\ UNCHANGED notQueueVars

\* start(): one worker task per configured worker, each awaiting queue.get().
Start ==
    /\ phase = "new"
    /\ phase' = "running"
    /\ wpc' = [w \in Workers |-> "get"]
    /\ UNCHANGED <<queue, active, created, wjob, cancelReq, frame, taken, task>>
    /\ UNCHANGED notQueueVars

\* Mutant: the newest task is served first.
QueueGetNewest(q) == q[Len(q)]

\* asyncio.Queue.get_nowait: the oldest task.
QueueGet(q) == Head(q)

\* Mutant: the task is read but stays in the queue.
QueueKeeps(q) == q

\* asyncio.Queue.get_nowait removes what it returns.
QueueAfterGet(q) == Tail(q)

\* queue.get() returns a task; the worker registers it and calls _process_file,
\* which runs to its first await: the "extracting" message for a video, the
\* conversion for audio.
Dequeue(w) ==
    /\ wpc[w] = "get" /\ ~cancelReq[w]
    /\ queue # <<>>
    /\ LET j == QueueGet(queue)
       IN /\ queue' = QueueAfterGet(queue)
          /\ wjob' = [wjob EXCEPT ![w] = j]
          /\ active' = active \cup {j}
          /\ taken' = Append(taken, j)
          /\ task' = [task EXCEPT ![j].outcome = "running"]
    /\ frame' = [frame EXCEPT ![w] = NewFrame]
    /\ \E video \in BOOLEAN :
          wpc' = [wpc EXCEPT ![w] = IF video THEN "msg_extract" ELSE "convert"]
    /\ UNCHANGED <<phase, created, cancelReq>>
    /\ UNCHANGED notQueueVars

\* `" ".join(all_texts)`: str.join.
RECURSIVE StrJoin(_, _)
StrJoin(sep, seq) ==
    IF seq = <<>> THEN ""
    ELSE IF Len(seq) = 1 THEN seq[1]
    ELSE seq[1] \o sep \o StrJoin(sep, Tail(seq))

\* Mutant: the newest transcript is put first.
CollectInFront(texts, t) == <<t>> \o texts

\* `all_texts.append(text)`
Collect(texts, t) == Append(texts, t)

\* Mutant: the recognition loop ends after its first segment.
OnlyFirstSegment(i, n) == FALSE

\* The recognition loop `for i, key in enumerate(remote_keys, 1)` goes on after
\* segment i of n.
MoreSegments(i, n) == i < n

\* Mutant: the cleanup deletes the keys of a completed upload loop only.
CleanupKeysIfAll(fr) ==
    IF Len(fr.remote_keys) = Len(fr.parts) THEN Range(fr.remote_keys) ELSE {}

\* `for key in remote_keys:` of the cleanup: every key gets a delete_file call.
CleanupKeys(fr) == Range(fr.remote_keys)

\* The local files the cleanup tries to remove, `disk` being the files of the task
\* that exist: file_path, ogg_path and part_files when they exist, then the
\* parts directory with all it holds.
CleanupFiles(fr, disk) ==
    (({InputFile, OggFile} \cup Range(fr.part_files)) \cap disk)
        \cup {f \in disk : f[1] = "part"}

\* The frame fr after the finally block of _process_file, `disk` being the files
\* of the task that exist and `raised` telling whether one of the calls raised:
\* each call is wrapped in its own try, so the block always runs to its end.
CleanedUp(fr, disk, raised) ==
    [EmptyFrame EXCEPT !.ended = TRUE,
                       !.delAttempted = CleanupKeys(fr),
                       !.keptKeys = fr.uploaded \ CleanupKeys(fr),
                       !.keptFiles = disk \ CleanupFiles(fr, disk),
                       !.cleanupErrs = raised]

\* What an aborted await may leave on the disk: a partial ogg file of the
\* conversion, some files of the split.
Leftovers(pc) ==
    IF pc = "convert" THEN {{}, {OggFile}}
    ELSE IF pc = "split" THEN {{PartFile(i) : i \in 1..m} : m \in 0..MaxParts}
    ELSE {{}}

\* Mutant: the worker logs the error and sends nothing.
ErrorOnlyLogged(n) == n

\* `except Exception` of _worker: one _send_message call with the error text.
OnPipelineError(n) == n + 1

\* An Exception leaves _process_file through its finally block (the cleanup) and
\* reaches `except Exception` of _worker, which calls _send_message and awaits it.
PipelineError(w, fr, disk) ==
    /\ \E raised \in BOOLEAN : frame' = [frame EXCEPT ![w] = CleanedUp(fr, disk, raised)]
    /\ task' = [task EXCEPT ![wjob[w]] =
                   [@ EXCEPT !.cleanups = @ + 1,
                             !.errors = @ + 1,
                             !.failNotes = OnPipelineError(@),
                             !.outcome = "failed"]]
    /\ wpc' = [wpc EXCEPT ![w] = "msg_fail"]
    /\ UNCHANGED <<phase, queue, active, created, wjob, cancelReq, taken>>
    /\ UNCHANGED notQueueVars

\* A step of worker w inside _process_file: it changes the frame and the await
\* the worker stops at.
Step(w, pc, fr) ==
    /\ wpc' = [wpc EXCEPT ![w] = pc]
    /\ frame' = [frame EXCEPT ![w] = fr]
    /\ UNCHANGED <<phase, queue, active, created, wjob, cancelReq, taken, task>>
    /\ UNCHANGED notQueueVars

Running(w, pc) == wpc[w] = pc /\ ~cancelReq[w]

Event(fr, evs) == [fr EXCEPT !.stages = @ \o evs]

\* The "extracting" message of a video is out: extract_audio starts.
MsgExtractSent(w) ==
    /\ Running(w, "msg_extract")
    /\ Step(w, "convert", frame[w])

\* Step 1, extract_audio or convert_to_ogg, wrote ogg_path.
ConvertOk(w) ==
    /\ Running(w, "convert")
    /\ Step(w, "duration", [frame[w] EXCEPT !.disk = @ \cup {OggFile}])

\* Step 2, get_duration.
DurationOk(w) ==
    /\ Running(w, "duration")
    /\ Step(w, "split", frame[w])

\* Step 3, split_file: the ogg file itself when no split is needed, else the n >= 1
\* files ffmpeg wrote to the parts directory. More than one part is announced.
SplitOk(w) ==
    /\ Running(w, "split")
    /\ \E n \in 1..MaxParts, viaSplit \in BOOLEAN :
          /\ n > 1 => viaSplit
          /\ LET ps == IF viaSplit THEN [i \in 1..n |-> PartFile(i)] ELSE <<OggFile>>
             IN Step(w, IF n > 1 THEN "msg_split" ELSE "msg_upload",
                     [frame[w] EXCEPT !.parts = ps, !.disk = @ \cup Range(ps)])

\* The "split into N parts" message is out: `part_files = parts`, then the
\* "uploading" message.
MsgSplitSent(w) ==
    /\ Running(w, "msg_split")
    /\ Step(w, "msg_upload", [frame[w] EXCEPT !.part_files = frame[w].parts])

\* Step 4: the upload loop is synchronous. Here every upload_file call succeeds;
\* the recognition loop starts with the message for segment 1.
UploadAll(w) ==
    /\ Running(w, "msg_upload")
    /\ LET ps == frame[w].parts
       IN Step(w, "msg_rec",
               Event([frame[w] EXCEPT !.remote_keys = ps, !.uploaded = Range(ps),
                                      !.i = 1],
                     [n \in 1..Len(ps) |-> <<"upload", n>>]))

\* Step 4, with the upload of part m + 1 raising StorageError.
UploadFail(w) ==
    /\ Running(w, "msg_upload")
    /\ \E m \in 0..(Len(frame[w].parts) - 1) :
          LET ps == SubSeq(frame[w].parts, 1, m)
          IN PipelineError(w, [frame[w] EXCEPT !.remote_keys = ps, !.uploaded = Range(ps)],
                           frame[w].disk)

\* The message for segment i is out: the timeout monitor is created and
\* recognize() is called for the segment.
MsgRecSent(w) ==
    /\ Running(w, "msg_rec")
    /\ Step(w, "recognize", Event(frame[w], <<<<"rec_start", frame[w].i>>>>))

\* Step 5: recognize() returns the transcript of segment i; the loop goes on with
\* the message of the next segment, or ends and the "analyzing" message is sent.
RecognizeOk(w) ==
    /\ Running(w, "recognize")
    /\ \E text \in Texts :
          LET fr == frame[w]
              more == MoreSegments(fr.i, Len(fr.remote_keys))
          IN Step(w, IF more THEN "msg_rec" ELSE "msg_analyze",
                  Event([fr EXCEPT !.all_texts = Collect(@, text),
                                   !.heard = @ \cup {<<fr.i, text>>},
                                   !.i = IF more THEN @ + 1 ELSE @],
                        <<<<"rec_end", fr.i>>>>))

\* Step 6: the "analyzing" message is out, analyze() is called with the joined text.
MsgAnalyzeSent(w) ==
    /\ Running(w, "msg_analyze")
    /\ Step(w, "analyze",
            Event([frame[w] EXCEPT
                      !.analyzed = Append(@, StrJoin(" ", frame[w].all_texts))],
                  <<<<"analyze_start", 0>>>>))

\* analyze() returned: step 7 opens the session and writes the record.
AnalyzeOk(w) ==
    /\ Running(w, "analyze")
    /\ Step(w, "persist",
            Event(frame[w], <<<<"analyze_end", 0>>, <<"persist_start", 0>>>>))

\* The record is committed: step 8 sends the result.
PersistOk(w) ==
    /\ Running(w, "persist")
    /\ Step(w, "msg_result",
            Event(frame[w], <<<<"persist_end", 0>>, <<"notify_result", 0>>>>))

\* The result message is out: the "done" message is sent.
MsgResultSent(w) ==
    /\ Running(w, "msg_result")
    /\ Step(w, "msg_done", frame[w])

\* An awaited stage raises an Exception.
StageFail(w) ==
    /\ wpc[w] \in StagePcs /\ ~cancelReq[w]
    /\ \E left \in Leftovers(wpc[w]) :
          PipelineError(w, frame[w], frame[w].disk \cup left)

\* The worker is done with its task: `self._active_tasks.pop`, task_done(), and
\* the loop goes on (back to queue.get()) or breaks.
Release(w, pc) ==
    /\ active' = active \ {wjob[w]}
    /\ wjob' = [wjob EXCEPT ![w] = NoJob]
    /\ wpc' = [wpc EXCEPT ![w] = pc]

\* The "done" message is out: _process_file ends through its finally block and the
\* worker drops the task.
Finish(w) ==
    /\ Running(w, "msg_done")
    /\ \E raised \in BOOLEAN :
          frame' = [frame EXCEPT ![w] = CleanedUp(@, @.disk, raised)]
    /\ task' = [task EXCEPT ![wjob[w]] =
                   [@ EXCEPT !.cleanups = @ + 1, !.outcome = "succeeded"]]
    /\ Release(w, "get")
    /\ UNCHANGED <<phase, queue, created, cancelReq, taken>>
    /\ UNCHANGED notQueueVars

\* The failure message is out (or its sending failed, which _send_message
\* swallows): the worker drops the task and is back at queue.get().
MsgFailSent(w) ==
    /\ Running(w, "msg_fail")
    /\ Release(w, "get")
    /\ frame' = [frame EXCEPT ![w] = EmptyFrame]
    /\ UNCHANGED <<phase, queue, created, cancelReq, taken, task>>
    /\ UNCHANGED notQueueVars

\* stop(): worker.cancel() for every worker, then it waits for them.
\* Mutant: only the first worker is cancelled.
CancelFirstOnly == [w \in Workers |-> w = 1]

\* `for worker in self._workers: worker.cancel()`
CancelAll == [w \in Workers |-> TRUE]

\* self._workers: filled by start(), cleared when stop() returns.
workers == IF phase \in {"running", "stopping"} THEN Workers ELSE {}

Stop ==
    /\ phase = "running"
    /\ phase' = "stopping"
    /\ cancelReq' = CancelAll
    /\ UNCHANGED <<queue, active, created, wpc, wjob, frame, taken, task>>
    /\ UNCHANGED notQueueVars

\* CancelledError is raised at the await the worker is suspended at. Inside
\* _process_file it passes the finally block (the cleanup); `except Exception`
\* does not catch it; the finally of _worker drops the task and the loop breaks.
Cancelled(w) ==
    /\ cancelReq[w]
    /\ cancelReq' = [cancelReq EXCEPT ![w] = FALSE]
    /\ IF wpc[w] \in PipelinePcs
       THEN /\ \E raised \in BOOLEAN, left \in Leftovers(wpc[w]) :
                  frame' = [frame EXCEPT ![w] = CleanedUp(@, @.disk \cup left, raised)]
            /\ task' = [task EXCEPT ![wjob[w]] =
                           [@ EXCEPT !.cleanups = @ + 1, !.outcome = "cancelled"]]
            /\ Release(w, "stopped")
       ELSE IF wpc[w] = "msg_fail"
       THEN /\ Release(w, "stopped")
            /\ frame' = [frame EXCEPT ![w] = EmptyFrame]
            /\ UNCHANGED task
       ELSE /\ wpc' = [wpc EXCEPT ![w] = "stopped"]
            /\ frame' = [frame EXCEPT ![w] = EmptyFrame]
            /\ UNCHANGED <<active, wjob, task>>
    /\ UNCHANGED <<phase, queue, created, taken>>
    /\ UNCHANGED notQueueVars

\* Every worker has ended: gather() returns and stop() clears the worker list.
StopDone ==
    /\ phase = "stopping"
    /\ \A w \in Workers : wpc[w] = "stopped"
    /\ phase' = "stopped"
    /\ UNCHANGED <<queue, active, created, wpc, wjob, cancelReq, frame, taken, task>>
    /\ UNCHANGED notQueueVars

NextQueue ==
    \/ Enqueue
    \/ Start
    \/ Stop
    \/ StopDone
    \/ \E w \in Workers : Dequeue(w)
    \/ \E w \in Workers : MsgExtractSent(w)
    \/ \E w \in Workers : ConvertOk(w)
    \/ \E w \in Workers : DurationOk(w)
    \/ \E w \in Workers : SplitOk(w)
    \/ \E w \in Workers : MsgSplitSent(w)
    \/ \E w \in Workers : UploadAll(w)
    \/ \E w \in Workers : UploadFail(w)
    \/ \E w \in Workers : MsgRecSent(w)
    \/ \E w \in Workers : RecognizeOk(w)
    \/ \E w \in Workers : MsgAnalyzeSent(w)
    \/ \E w \in Workers : AnalyzeOk(w)
    \/ \E w \in Workers : PersistOk(w)
    \/ \E w \in Workers : MsgResultSent(w)
    \/ \E w \in Workers : StageFail(w)
    \/ \E w \in Workers : Finish(w)
    \/ \E w \in Workers : MsgFailSent(w)
    \/ \E w \in Workers : Cancelled(w)

(***************************************************************************)
(* The recognition loop of _process_file with its timeout monitors         *)
(***************************************************************************)
Segments == 1..MaxParts

\* A `timeout_task`: where the _timeout_monitor coroutine is ("none": not
\* created, "sleeping", "sending": in its _send_message call, "done",
\* "cancelling": cancel() was called and CancelledError is not yet delivered,
\* "cancelled"), the notifications it has sent, and those it sent after the
\* recognize() call it was created for had ended.
NoWatcher == [st |-> "none", notes |-> 0, late |-> 0]

InitMonitor ==
    /\ rec = [k |-> 0, i |-> 0, pc |-> "idle"]
    /\ watcher = [i \in Segments |-> NoWatcher]

\* The recognize() call for segment i has ended (returned, raised or was cancelled).
RecognitionEnded(i) ==
    \/ i < rec.i
    \/ i = rec.i /\ rec.pc \in {"after", "failed", "cancelled"}

\* The "taking longer than expected" notifications sent for the job.
RECURSIVE LongNotes(_)
LongNotes(n) == IF n = 0 THEN 0 ELSE watcher[n].notes + LongNotes(n - 1)

\* Mutant: the finally block leaves the monitor alone.
NotCancelled(wt) == wt

\* `timeout_task.cancel()`: a task that has ended stays as it is, any other
\* gets CancelledError at the await it is suspended at.
TaskCancel(wt) ==
    IF wt.st \in {"sleeping", "sending"} THEN [wt EXCEPT !.st = "cancelling"] ELSE wt

\* The upload loop has filled remote_keys with k keys: the recognition loop
\* starts with the message for segment 1.
RecLoopStart ==
    /\ rec.pc = "idle"
    /\ \E k \in Segments : rec' = [k |-> k, i |-> 1, pc |-> "msg"]
    /\ UNCHANGED watcher
    /\ UNCHANGED notMonitorVars

\* The message for segment i is out: create_task(_timeout_monitor(...)), which
\* starts sleeping, and recognize() is awaited.
MonitorCreated ==
    /\ rec.pc = "msg"
    /\ rec' = [rec EXCEPT !.pc = "recognize"]
    /\ watcher' = [watcher EXCEPT ![rec.i].st = "sleeping"]
    /\ UNCHANGED notMonitorVars

\* _timeout_monitor: the sleep of expected_time is over, _send_message is called.
MonitorWakes(i) ==
    /\ watcher[i].st = "sleeping"
    /\ watcher' = [watcher EXCEPT ![i] =
                      [st |-> "sending", notes |-> @.notes + 1,
                       late |-> @.late + (IF RecognitionEnded(i) THEN 1 ELSE 0)]]
    /\ UNCHANGED rec
    /\ UNCHANGED notMonitorVars

\* _timeout_monitor: its _send_message call returns and the coroutine ends.
MonitorSent(i) ==
    /\ watcher[i].st = "sending"
    /\ watcher' = [watcher EXCEPT ![i].st = "done"]
    /\ UNCHANGED rec
    /\ UNCHANGED notMonitorVars

\* CancelledError is delivered to the monitor at its sleep or its send.
MonitorCancelled(i) ==
    /\ watcher[i].st = "cancelling"
    /\ watcher' = [watcher EXCEPT ![i].st = "cancelled"]
    /\ UNCHANGED rec
    /\ UNCHANGED notMonitorVars

\* recognize() returns the transcript of segment i: the finally block cancels the
\* monitor, and the loop goes on with the next message or ends.
RecognizeReturns ==
    /\ rec.pc = "recognize"
    /\ watcher' = [watcher EXCEPT ![rec.i] = TaskCancel(@)]
    /\ rec' = IF MoreSegments(rec.i, rec.k)
              THEN [rec EXCEPT !.i = @ + 1, !.pc = "msg"]
              ELSE [rec EXCEPT !.pc = "after"]
    /\ UNCHANGED notMonitorVars

\* recognize() raises SpeechKitError: the finally block cancels the monitor and
\* the error leaves the loop.
RecognizeRaises ==
    /\ rec.pc = "recognize"
    /\ watcher' = [watcher EXCEPT ![rec.i] = TaskCancel(@)]
    /\ rec' = [rec EXCEPT !.pc = "failed"]
    /\ UNCHANGED notMonitorVars

\* The worker is cancelled (stop()) at the message or inside recognize(): in
\* the latter case CancelledError passes the finally block.
RecLoopCancelled ==
    /\ rec.pc \in {"msg", "recognize"}
    /\ watcher' = IF rec.pc = "recognize"
                  THEN [watcher EXCEPT ![rec.i] = TaskCancel(@)]
                  ELSE watcher
    /\ rec' = [rec EXCEPT !.pc = "cancelled"]
    /\ UNCHANGED notMonitorVars

NextMonitor ==
    \/ RecLoopStart
    \/ MonitorCreated
    \/ \E i \in Segments : MonitorWakes(i)
    \/ \E i \in Segments : MonitorSent(i)
    \/ \E i \in Segments : MonitorCancelled(i)
    \/ RecognizeReturns
    \/ RecognizeRaises
    \/ RecLoopCancelled

(***************************************************************************)
(* SpeechKitClient._poll_until_done                                        *)
(***************************************************************************)
\* The poll interval and the maximum wait the loop runs with: the constants of
\* the module, and small values.
Intervals == {1, 2, 3, POLL_INTERVAL}
MaxWaits == (0..MaxWait) \cup {MAX_POLL_TIME}

\* A status response: its HTTP status is 200 or not, and its body has an error
\* payload and a true `done` or not.
Responses == [ok : BOOLEAN, error : BOOLEAN, done : BOOLEAN]

\* A _poll_until_done call: POLL_INTERVAL and MAX_POLL_TIME, `elapsed`, where
\* it is ("idle": not called, "headers": in _get_headers, "request": awaiting
\* the status response, "sleep", or how it ended: "returned", "error"
\* (recognition error), "failed" (poll failed), "token_error", "timeout").
\* When it is called by recognize(): "submit" (awaiting the answer to the
\* submit request), "submit_failed", `submitted` and the answer `submit`.
\* History: the get_token() calls, the status requests and the sleeps made,
\* the responses that were neither done nor an error, and the last response.
NoPoll ==
    [interval |-> 0, maxWait |-> 0, elapsed |-> 0, pc |-> "idle", tokens |-> 0,
     requests |-> 0, sleeps |-> 0, pending |-> 0,
     last |-> [ok |-> FALSE, error |-> FALSE, done |-> FALSE],
     submitted |-> FALSE, submit |-> [ok |-> FALSE, id |-> FALSE]]

InitPoll == poll = NoPoll

\* Mutant: the loop goes on while elapsed <= MAX_POLL_TIME.
TimeLeftInclusive(elapsed, maxWait) == elapsed <= maxWait

\* `while elapsed < MAX_POLL_TIME`
TimeLeft(elapsed, maxWait) == elapsed < maxWait

\* The head of the loop: another round (which starts with _get_headers), or
\* the timeout error.
LoopHead(p) ==
    IF TimeLeft(p.elapsed, p.maxWait)
    THEN [p EXCEPT !.pc = "headers", !.tokens = @ + 1]
    ELSE [p EXCEPT !.pc = "timeout"]

\* _poll_until_done is called: elapsed = 0.
PollStart ==
    /\ poll.pc = "idle"
    /\ \E iv \in Intervals, mw \in MaxWaits :
          poll' = LoopHead([poll EXCEPT !.interval = iv, !.maxWait = mw])
    /\ UNCHANGED notPollVars

\* An answer to the submit request: its HTTP status is 200 or not, and its
\* body has an "id" or not.
SubmitResponses == [ok : BOOLEAN, id : BOOLEAN]

\* Mutant: the operation id is not looked at.
AfterSubmitAnyBody(r) == IF r.ok THEN "accepted" ELSE "submit_failed"

\* What follows the answer to the submit request: lines 106-115.
AfterSubmit(r) == IF r.ok /\ r.id THEN "accepted" ELSE "submit_failed"

\* recognize() is called: _submit asks for the token and sends its request, or
\* IAMTokenError leaves recognize().
RecognizeStart ==
    /\ poll.pc = "idle"
    /\ \E iv \in Intervals, mw \in MaxWaits, headers \in BOOLEAN :
          poll' = [poll EXCEPT !.interval = iv, !.maxWait = mw, !.tokens = @ + 1,
                               !.submitted = headers,
                               !.pc = IF headers THEN "submit" ELSE "token_error"]
    /\ UNCHANGED notPollVars

\* The answer to the submit request arrives: SpeechKitError, or
\* _poll_until_done is called with the operation id.
SubmitAnswered ==
    /\ poll.pc = "submit"
    /\ \E r \in SubmitResponses :
          poll' = IF AfterSubmit(r) = "accepted"
                  THEN LoopHead([poll EXCEPT !.submit = r])
                  ELSE [poll EXCEPT !.submit = r, !.pc = "submit_failed"]
    /\ UNCHANGED notPollVars

\* get_token() returns: the status request is sent.
HeadersOk ==
    /\ poll.pc = "headers"
    /\ poll' = [poll EXCEPT !.pc = "request", !.requests = @ + 1]
    /\ UNCHANGED notPollVars

\* get_token() raises IAMTokenError, which leaves _poll_until_done.
HeadersFail ==
    /\ poll.pc = "headers"
    /\ poll' = [poll EXCEPT !.pc = "token_error"]
    /\ UNCHANGED notPollVars

\* Mutant: the completion flag is looked at before the error payload.
AfterResponseDoneFirst(r) ==
    IF ~r.ok THEN "failed"
    ELSE IF r.done THEN "returned"
    ELSE IF r.error THEN "error"
    ELSE "sleep"

\* What follows a status response: lines 127-143.
AfterResponse(r) ==
    IF ~r.ok THEN "failed"
    ELSE IF r.error THEN "error"
    ELSE IF r.done THEN "returned"
    ELSE "sleep"

\* The status response arrives.
Response ==
    /\ poll.pc = "request"
    /\ \E r \in Responses :
          LET next == AfterResponse(r)
          IN poll' = [poll EXCEPT !.pc = next,
                                  !.last = r,
                                  !.pending = IF next = "sleep" THEN @ + 1 ELSE @,
                                  !.sleeps = IF next = "sleep" THEN @ + 1 ELSE @]
    /\ UNCHANGED notPollVars

\* The sleep is over: `elapsed += POLL_INTERVAL`, and the loop head again.
SleepOver ==
    /\ poll.pc = "sleep"
    /\ poll' = LoopHead([poll EXCEPT !.elapsed = @ + poll.interval])
    /\ UNCHANGED notPollVars

NextPoll ==
    \/ PollStart
    \/ RecognizeStart
    \/ SubmitAnswered
    \/ HeadersOk
    \/ HeadersFail
    \/ Response
    \/ SleepOver

(***************************************************************************)
(* YandexGPTClient.analyze and _split_text                                 *)
(***************************************************************************)
\* The characters of a text: the full stop, the space, and any other.
Chars == {".", " ", "a"}

\* Python's text[a:b] for 0 <= a, with b clipped to the length.
Slice(t, a, b) == SubSeq(t, a + 1, IF b > Len(t) THEN Len(t) ELSE b)

\* Python's text.rfind(sub, lo, hi) for 0 <= lo: the highest index p >= lo with
\* text[p : p + len(sub)] = sub inside text[lo:hi], or -1.
RFind(t, sub, lo, hi) ==
    LET top == IF hi > Len(t) THEN Len(t) ELSE hi
        hits == {p \in lo..(top - Len(sub)) : Slice(t, p, p + Len(sub)) = sub}
    IN IF hits = {} THEN -1 ELSE CHOOSE p \in hits : \A q \in hits : q <= p

\* Mutant: no text is taken as blank.
NeverBlank(t) == FALSE

\* `not text or not text.strip()`
Blank(t) == \A n \in DOMAIN t : t[n] = " "

\* `split_pos` of lines 172-176: the last ". " of the second half of the
\* window, else its last " ", else `end`.
SplitPos(t, start) ==
    LET end == start + MAX_INPUT_CHARS
        lo == start + (MAX_INPUT_CHARS \div 2)
        sentence == RFind(t, <<".", " ">>, lo, end)
        space == RFind(t, <<" ">>, lo, end)
    IN IF sentence # -1 THEN sentence ELSE IF space # -1 THEN space ELSE end

\* Mutant: the next chunk starts one character too early.
NextStartEarly(split_pos) == split_pos - CHUNK_OVERLAP_CHARS

\* `start = split_pos + 1 - CHUNK_OVERLAP_CHARS`
NextStart(split_pos) == split_pos + 1 - CHUNK_OVERLAP_CHARS

\* Mutant: the loop runs while start <= len(text).
RECURSIVE SplitFromInclusive(_, _, _)
SplitFromInclusive(t, start, chunks) ==
    IF ~(start <= Len(t)) THEN chunks
    ELSE IF start + MAX_INPUT_CHARS >= Len(t)
         THEN Append(chunks, [start |-> start, chars |-> Slice(t, start, Len(t))])
         ELSE LET split_pos == SplitPos(t, start)
              IN SplitFromInclusive(t, NextStart(split_pos),
                                    Append(chunks, [start |-> start,
                                                    chars |-> Slice(t, start, split_pos + 1)]))

\* The loop of _split_text from `start` on, `chunks` being the chunks so far.
\* A chunk is kept with the `start` it was cut at.
RECURSIVE SplitFrom(_, _, _)
SplitFrom(t, start, chunks) ==
    IF ~(start < Len(t)) THEN chunks
    ELSE IF start + MAX_INPUT_CHARS >= Len(t)
         THEN Append(chunks, [start |-> start, chars |-> Slice(t, start, Len(t))])
         ELSE LET split_pos == SplitPos(t, start)
              IN SplitFrom(t, NextStart(split_pos),
                           Append(chunks, [start |-> start,
                                           chars |-> Slice(t, start, split_pos + 1)]))

\* _split_text(text)
SplitText(t) == SplitFrom(t, 0, <<>>)

\* Mutant: a text of exactly the ceiling is chunked.
FitsBelow(t) == Len(t) < MAX_INPUT_CHARS

\* `len(transcription_text) <= MAX_INPUT_CHARS`
Fits(t) == Len(t) <= MAX_INPUT_CHARS

\* A call: where it is ("input": not called, "split": _split_text alone has
\* returned, "single": awaiting the one completion, "chunk": awaiting the
\* completion of chunk i, "final": awaiting the summarization, and how
\* analyze() ended: "placeholder", "returned", "raised"), `chunks`, `i`, and
\* the completion requests sent, in order.
\* The text analyze() returns for a blank input:
\* "_Текст транскрибации пуст. Анализ невозможен._"
Placeholder == "_Tekst transkribacii pust. Analiz nevozmozhen._"

\* The answers of the completion service: an answer with a message text, and
\* the answers that lack a part: status 200 with an alternative without message
\* text, with an empty list of alternatives, without "result"; a status other
\* than 200.
GptResponses == {"text", "no_text", "no_alternatives", "no_result", "non200"}

\* Mutant: an empty list of alternatives is read as an empty answer.
CompletionLenient(resp) ==
    IF resp \in {"no_result", "non200"}
    THEN [raises |-> TRUE, text |-> ""]
    ELSE [raises |-> FALSE, text |-> IF resp = "text" THEN "analysis" ELSE ""]

\* _complete from the response on: YandexGPTError for a status other than 200
\* and for `not alternatives`, else alternatives[0].get("message", {})
\* .get("text", "").
Completion(resp) ==
    IF resp \in {"no_alternatives", "no_result", "non200"}
    THEN [raises |-> TRUE, text |-> ""]
    ELSE [raises |-> FALSE, text |-> IF resp = "text" THEN "analysis" ELSE ""]

\* No call yet.
\*   pc      where analyze() is: "placeholder", "returned" and "raised" are its ends
\*   chunks  `chunks` of _analyze_chunked
\*   i       the index of the chunk loop
\*   sent    history: the completion requests made, in order
\*   tokens  history: the number of get_token() calls made
\*   last    history: the answer to the last completion request ("none": none)
\*   error   the exception that left analyze() ("": none)
\*   out     the text analyze() returned
NoCall ==
    [pc |-> "input", chunks |-> <<>>, i |-> 0, sent |-> <<>>, tokens |-> 0,
     last |-> "none", error |-> "", out |-> ""]

InitGpt ==
    /\ transcription_text = <<>>
    /\ gpt = NoCall

\* The caller's text, character by character.
TextGrows ==
    /\ gpt.pc = "input"
    /\ Len(transcription_text) < MaxTextLen
    /\ \E c \in Chars : transcription_text' = Append(transcription_text, c)
    /\ UNCHANGED gpt
    /\ UNCHANGED notGptVars

\* _split_text(text) is called on its own.
SplitCalled ==
    /\ gpt.pc = "input"
    /\ gpt' = [gpt EXCEPT !.pc = "split", !.chunks = SplitText(transcription_text)]
    /\ UNCHANGED transcription_text
    /\ UNCHANGED notGptVars

\* analyze(text) is called and runs to its first completion request: none for
\* a blank text, the single one, or the one for the first chunk.
Analyze ==
    /\ gpt.pc = "input"
    /\ gpt' = IF Blank(transcription_text)
              THEN [gpt EXCEPT !.pc = "placeholder", !.out = Placeholder]
              ELSE IF Fits(transcription_text)
              THEN [gpt EXCEPT !.pc = "single", !.sent = <<"single">>, !.tokens = 1]
              ELSE [gpt EXCEPT !.pc = "chunk", !.chunks = SplitText(transcription_text),
                               !.i = 1, !.sent = <<"chunk">>, !.tokens = 1]
    /\ UNCHANGED transcription_text
    /\ UNCHANGED notGptVars

\* _complete returns the text of the answer: analyze() returns it, or goes on
\* with the next chunk, or with the summarization of the partial results.
CompleteOk ==
    /\ gpt.pc \in {"single", "chunk", "final"}
    /\ \E resp \in GptResponses :
          /\ ~Completion(resp).raises
          /\ LET g == [gpt EXCEPT !.last = resp]
             IN  gpt' = IF gpt.pc \in {"single", "final"}
                        THEN [g EXCEPT !.pc = "returned", !.out = Completion(resp).text]
                        ELSE IF gpt.i < Len(gpt.chunks)
                        THEN [g EXCEPT !.i = @ + 1, !.sent = Append(@, "chunk"),
                                       !.tokens = @ + 1]
                        ELSE [g EXCEPT !.pc = "final", !.sent = Append(@, "final"),
                                       !.tokens = @ + 1]
    /\ UNCHANGED transcription_text
    /\ UNCHANGED notGptVars

\* _complete raises YandexGPTError, which leaves analyze().
CompleteFail ==
    /\ gpt.pc \in {"single", "chunk", "final"}
    /\ \E resp \in GptResponses :
          /\ Completion(resp).raises
          /\ gpt' = [gpt EXCEPT !.pc = "raised", !.last = resp,
                                !.error = "YandexGPTError"]
    /\ UNCHANGED transcription_text
    /\ UNCHANGED notGptVars

\* get_token() raises IAMTokenError in _get_headers: the request is not made.
HeadersRaise ==
    /\ gpt.pc \in {"single", "chunk", "final"}
    /\ gpt' = [gpt EXCEPT !.pc = "raised", !.error = "IAMTokenError",
                          !.sent = SubSeq(@, 1, Len(@) - 1)]
    /\ UNCHANGED transcription_text
    /\ UNCHANGED notGptVars

NextGpt ==
    \/ TextGrows
    \/ SplitCalled
    \/ Analyze
    \/ CompleteOk
    \/ CompleteFail
    \/ HeadersRaise

(***************************************************************************)
(* One worker's loop body with the data of its task (queue.py): the task   *)
(* goes through _process_file, every message has a delivery that succeeds  *)
(* or fails, the cleanup runs step by step, and the worker reports a       *)
(* failure.  Each action is the code from one await to the next.           *)
(***************************************************************************)
\* What get_duration returns, in seconds.
Durations == {60, 120}

\* The awaits of _process_file on a stage, and those on a message.
JobStagePcs == {"convert", "duration", "split", "recognize", "analyze", "persist"}

JobMsgPcs == {"msg_extract", "msg_split", "msg_upload", "msg_rec", "msg_analyze",
              "msg_result", "msg_done"}

\* The text of a part, character by character: the texts of Texts have at
\* most one character.
TextChars(text) == IF text = "" THEN <<>> ELSE <<text>>

\* str(e) of the exception a stage raises.
ErrorOf(stage) ==
    CASE stage = "convert" -> "FFmpeg command failed"
      [] stage = "duration" -> "Could not determine duration"
      [] stage = "split" -> "FFmpeg command failed"
      [] stage = "upload" -> "Upload failed"
      [] stage = "recognize" -> "Recognition failed"
      [] stage = "analyze" -> "YandexGPT request failed"
      [] stage = "persist" -> "database is locked"

\* f"❌ Ошибка обработки: {e}"
FailureText(e) == "Oshibka obrabotki: " \o e

\* cost = duration * SPEECHKIT_COST_PER_SEC, in millionths of a rouble.
Cost(duration) == duration * SPEECHKIT_COST_PER_SEC

\* No task: the worker is at `await self._queue.get()`.
\*   n            how many tasks the worker has taken
\*   pc           the await the worker is at
\*   video        is_video(file_path)
\*   converted    the ogg file was written
\*   duration     `duration`
\*   parts        len(parts)
\*   part_files   len(part_files)
\*   parts_dir    the parts directory exists
\*   remote_keys  len(remote_keys)
\*   i            the index of the recognition loop
\*   all_texts    `all_texts`
\*   records      the transcription records committed
\*   log          history: the stages completed, the _send_message calls that
\*                returned, "commit" and "cleanup", in order
\*   undelivered  history: some bot.send_message call raised
\*   raised       str(e) of the exception that left the try block ("": none)
\*   cause        str(e) of the exception that left _process_file
\*   failText     the text of the failure message
\*   outcome      how the loop body ended
\*   attempted    history: the cleanup steps attempted, in order
\*   failed       history: the cleanup steps that raised
NoRun ==
    [n |-> 0, pc |-> "idle", video |-> FALSE, converted |-> FALSE, duration |-> 0,
     parts |-> 0, part_files |-> 0, parts_dir |-> FALSE, remote_keys |-> 0, i |-> 0,
     all_texts |-> <<>>, records |-> <<>>, log |-> <<>>, undelivered |-> FALSE,
     raised |-> "", cause |-> "", failText |-> "", outcome |-> "none", attempted |-> <<>>,
     failed |-> {}, requests |-> 0, analysis_text |-> ""]

InitJob ==
    /\ job = NoRun
    /\ prevFailText = ""

\* _send_message: the exception of bot.send_message is caught and logged, the
\* call returns either way.
SendRaisesUndelivered(delivered) == ~delivered

SendRaises(delivered) == FALSE

\* A _send_message call of _process_file has ended.
Sent(j, delivered) ==
    [j EXCEPT !.log = Append(@, j.pc), !.undelivered = @ \/ ~delivered]

\* The steps of the finally block of _process_file: one delete_file per remote
\* key, os.remove of each existing file, rmtree of the parts directory.
CleanupSteps(j) ==
    [k \in 1..j.remote_keys |-> <<"delete_file", k>>]
    \o << <<"remove_input", 0>> >>
    \o (IF j.converted THEN << <<"remove_ogg", 0>> >> ELSE <<>>)
    \o [k \in 1..j.part_files |-> <<"remove_part", k>>]
    \o (IF j.parts_dir THEN << <<"rmtree", 0>> >> ELSE <<>>)

\* The sets of steps that raise in one run of the finally block.
Failing(j) == {f \in SUBSET Range(CleanupSteps(j)) : Cardinality(f) <= MaxFailing}

\* Each step is inside its own try/except Exception: its exception never
\* leaves the step.
StepRaisesWhenFailing(step, failing) == step \in failing

StepRaises(step, failing) == FALSE

\* The steps the finally block gets to, when the steps in `failing` raise.
RECURSIVE Attempted(_, _, _)
Attempted(steps, failing, p) ==
    IF p > Len(steps) THEN <<>>
    ELSE IF StepRaises(steps[p], failing) THEN <<steps[p]>>
    ELSE <<steps[p]>> \o Attempted(steps, failing, p + 1)

\* The finally block has run.
Cleaned(j, failing) ==
    LET done == Attempted(CleanupSteps(j), failing, 1)
    IN  [j EXCEPT !.attempted = done,
                  !.failed = failing \cap Range(done),
                  !.log = Append(@, "cleanup")]

\* An exception left the finally block.
CleanupEscaped(j) == \E p \in DOMAIN j.attempted : StepRaises(j.attempted[p], j.failed)

\* _process_file ends, with the exception `err` or ("") by falling through: the
\* finally block runs; an exception makes the worker call _send_message with
\* the failure text, no exception lets the worker drop the task.
Finished(j, failing, err) ==
    LET c == [Cleaned(j, failing) EXCEPT !.raised = err]
        e == IF CleanupEscaped(c) THEN "cleanup failed" ELSE err
    IN  IF e = ""
        THEN [c EXCEPT !.pc = "released", !.outcome = "succeeded"]
        ELSE [c EXCEPT !.pc = "msg_fail", !.cause = e, !.failText = FailureText(e)]

\* `task = await self._queue.get()` returns and _process_file runs to its first
\* await.
JobStart ==
    /\ job.pc \in {"idle", "released"}
    /\ job.outcome \in {"none", "succeeded", "failed"}
    /\ job.n < MaxRuns
    /\ \E video \in BOOLEAN :
          job' = [NoRun EXCEPT !.n = job.n + 1, !.video = video,
                               !.pc = IF video THEN "msg_extract" ELSE "convert"]
    /\ prevFailText' = IF job.outcome = "failed" THEN job.failText ELSE prevFailText
    /\ UNCHANGED notJobVars

\* The await that follows a message of _process_file.
AfterSend(pc) ==
    CASE pc = "msg_extract" -> "convert"
      [] pc = "msg_split" -> "msg_upload"
      [] pc = "msg_rec" -> "recognize"
      [] pc = "msg_analyze" -> "analyze"
      [] pc = "msg_result" -> "msg_done"

JobSent ==
    /\ job.pc \in {"msg_extract", "msg_split", "msg_rec", "msg_analyze", "msg_result"}
    /\ \E delivered \in BOOLEAN :
          IF SendRaises(delivered)
          THEN \E failing \in Failing(job) :
                  job' = Finished(Sent(job, delivered), failing, "Telegram error")
          ELSE job' = [Sent(job, delivered) EXCEPT !.pc = AfterSend(job.pc)]
    /\ UNCHANGED prevFailText
    /\ UNCHANGED notJobVars

\* extract_audio or convert_to_ogg returns.
JobConverted ==
    /\ job.pc = "convert"
    /\ job' = [job EXCEPT !.converted = TRUE, !.log = Append(@, "convert"),
                          !.pc = "duration"]
    /\ UNCHANGED prevFailText
    /\ UNCHANGED notJobVars

JobProbed ==
    /\ job.pc = "duration"
    /\ \E d \in Durations :
          job' = [job EXCEPT !.duration = d, !.log = Append(@, "duration"),
                             !.pc = "split"]
    /\ UNCHANGED prevFailText
    /\ UNCHANGED notJobVars

\* split_file returns the ogg file alone, or the files of a parts directory.
JobSplit ==
    /\ job.pc = "split"
    /\ \E k \in 1..MaxParts, dir \in BOOLEAN :
          /\ k > 1 => dir
          /\ job' = [job EXCEPT !.parts = k,
                                !.part_files = IF k > 1 THEN k ELSE 0,
                                !.parts_dir = dir,
                                !.log = Append(@, "split"),
                                !.pc = IF k > 1 THEN "msg_split" ELSE "msg_upload"]
    /\ UNCHANGED prevFailText
    /\ UNCHANGED notJobVars

\* The upload message has ended and every upload_file call returns.
JobUploaded ==
    /\ job.pc = "msg_upload"
    /\ \E delivered \in BOOLEAN :
          IF SendRaises(delivered)
          THEN \E failing \in Failing(job) :
                  job' = Finished(Sent(job, delivered), failing, "Telegram error")
          ELSE job' = [Sent(job, delivered) EXCEPT !.remote_keys = job.parts,
                                                   !.i = 1,
                                                   !.log = Append(@, "upload"),
                                                   !.pc = "msg_rec"]
    /\ UNCHANGED prevFailText
    /\ UNCHANGED notJobVars

\* The upload message has ended and upload_file raises for part m + 1.
JobUploadFails ==
    /\ job.pc = "msg_upload"
    /\ \E delivered \in BOOLEAN, m \in 0..(job.parts - 1) :
          LET j == [Sent(job, delivered) EXCEPT !.remote_keys = m]
          IN  \E failing \in Failing(j) :
                 job' = Finished(j, failing,
                                 IF SendRaises(delivered) THEN "Telegram error"
                                 ELSE ErrorOf("upload"))
    /\ UNCHANGED prevFailText
    /\ UNCHANGED notJobVars

JobRecognized ==
    /\ job.pc = "recognize"
    /\ \E text \in Texts :
          job' = [job EXCEPT !.all_texts = Append(@, text),
                             !.log = Append(@, "recognize"),
                             !.i = IF job.i < job.remote_keys THEN @ + 1 ELSE @,
                             !.pc = IF job.i < job.remote_keys THEN "msg_rec"
                                    ELSE "msg_analyze"]
    /\ UNCHANGED prevFailText
    /\ UNCHANGED notJobVars

\* Mutant: the texts of the parts are joined by a dash.
RECURSIVE JoinedByDash(_)
JoinedByDash(all_texts) ==
    IF all_texts = <<>> THEN <<>>
    ELSE IF Len(all_texts) = 1 THEN TextChars(all_texts[1])
    ELSE TextChars(all_texts[1]) \o <<"-">> \o JoinedByDash(Tail(all_texts))

\* `transcription_text = " ".join(all_texts)`, character by character.
RECURSIVE JoinedTexts(_)
JoinedTexts(all_texts) ==
    IF all_texts = <<>> THEN <<>>
    ELSE IF Len(all_texts) = 1 THEN TextChars(all_texts[1])
    ELSE TextChars(all_texts[1]) \o <<" ">> \o JoinedTexts(Tail(all_texts))

\* The completion requests of analyze(text) when every request is answered:
\* none for a blank text, one for a text within the ceiling, one per chunk and
\* the summarization otherwise.
CompletionRequests(text) ==
    IF Blank(text) THEN 0
    ELSE IF Fits(text) THEN 1
    ELSE Len(SplitText(text)) + 1

\* analyze() returns: the placeholder for a blank text, else the report.
JobAnalyzed ==
    /\ job.pc = "analyze"
    /\ LET text == JoinedTexts(job.all_texts)
       IN  job' = [job EXCEPT !.log = Append(@, "analyze"), !.pc = "persist",
                              !.requests = CompletionRequests(text),
                              !.analysis_text = IF Blank(text) THEN Placeholder
                                                ELSE "report"]
    /\ UNCHANGED prevFailText
    /\ UNCHANGED notJobVars

\* save_transcription and session.commit() return.
SavedWithoutCost(j) ==
    [duration_seconds |-> j.duration, cost_rubles |-> 0,
     file_type |-> IF j.video THEN "video" ELSE "audio"]

Saved(j) ==
    [duration_seconds |-> j.duration, cost_rubles |-> Cost(j.duration),
     file_type |-> IF j.video THEN "video" ELSE "audio"]

JobPersisted ==
    /\ job.pc = "persist"
    /\ job' = [job EXCEPT !.records = Append(@, Saved(job)),
                          !.log = Append(@, "commit"),
                          !.pc = "msg_result"]
    /\ UNCHANGED prevFailText
    /\ UNCHANGED notJobVars

\* The "done" message has ended: _process_file falls into its finally block.
JobDoneSent ==
    /\ job.pc = "msg_done"
    /\ \E delivered \in BOOLEAN :
          \E failing \in Failing(job) :
             job' = Finished(Sent(job, delivered), failing,
                             IF SendRaises(delivered) THEN "Telegram error" ELSE "")
    /\ UNCHANGED prevFailText
    /\ UNCHANGED notJobVars

\* A stage raises. analyze() of a blank text returns before its first await
\* and raises nothing.
JobStageFails ==
    /\ job.pc \in JobStagePcs
    /\ job.pc = "analyze" => ~Blank(JoinedTexts(job.all_texts))
    /\ \E failing \in Failing(job) :
          job' = Finished(job, failing, ErrorOf(job.pc))
    /\ UNCHANGED prevFailText
    /\ UNCHANGED notJobVars

\* The failure message has ended; the worker drops the task.
JobFailSent ==
    /\ job.pc = "msg_fail"
    /\ \E delivered \in BOOLEAN :
          job' = [Sent(job, delivered) EXCEPT
                     !.pc = "released",
                     !.outcome = IF SendRaises(delivered) THEN "died" ELSE "failed"]
    /\ UNCHANGED prevFailText
    /\ UNCHANGED notJobVars

\* The worker is cancelled at an await of the loop body: inside _process_file
\* the finally block runs, and the worker ends.
JobCancelled ==
    /\ job.pc \in JobStagePcs \cup JobMsgPcs \cup {"msg_fail"}
    /\ IF job.pc = "msg_fail"
       THEN job' = [job EXCEPT !.pc = "released", !.outcome = "cancelled"]
       ELSE \E failing \in Failing(job) :
               job' = [Cleaned(job, failing) EXCEPT !.pc = "released",
                                                    !.outcome = "cancelled"]
    /\ UNCHANGED prevFailText
    /\ UNCHANGED notJobVars

NextJob ==
    \/ JobStart
    \/ JobSent
    \/ JobConverted
    \/ JobProbed
    \/ JobSplit
    \/ JobUploaded
    \/ JobUploadFails
    \/ JobRecognized
    \/ JobAnalyzed
    \/ JobPersisted
    \/ JobDoneSent
    \/ JobStageFails
    \/ JobFailSent
    \/ JobCancelled

(***************************************************************************)
(* SpeechKitClient.recognize (speechkit.py) as the one client of the token *)
(* cache: _submit, then _poll_until_done, then _extract_text.  Every       *)
(* request takes its token from get_token() (iam.py); the lock of the      *)
(* cache is free whenever this one client asks for it.                     *)
(***************************************************************************)
\* The alternatives of a result chunk: a dict without "text" (<<>>) or with
\* one (<<text>>); and the chunks: lists of alternatives.
ChunkDicts == {<<>>, << <<"a">> >>, << <<"b">>, <<"a">> >>, << <<>> >>, << <<"">> >>}

\* The operation results: without "response", or with the chunks of one.
OperationResults ==
    {[response |-> FALSE, chunks |-> <<>>]}
    \cup {[response |-> TRUE, chunks |-> cs] :
             cs \in UNION {[1..m -> ChunkDicts] : m \in 0..MaxChunks}}

\* alternative.get("text", "")
TextOf(alternative) == IF alternative = <<>> THEN "" ELSE alternative[1]

\* Mutant: the last alternative of a chunk is taken.
LastAlternative(alternatives) == alternatives[Len(alternatives)]

\* alternatives[0]
FirstAlternative(alternatives) == alternatives[1]

\* `texts` of _extract_text: one text per chunk that has alternatives.
RECURSIVE ChunkTexts(_)
ChunkTexts(chunks) ==
    IF chunks = <<>> THEN <<>>
    ELSE (IF Head(chunks) # <<>> THEN <<TextOf(FirstAlternative(Head(chunks)))>>
          ELSE <<>>)
         \o ChunkTexts(Tail(chunks))

\* _extract_text(operation_result)
ExtractText(res) == StrJoin(" ", ChunkTexts(IF res.response THEN res.chunks ELSE <<>>))

\* No call yet.
\*   pc       the await recognize() is at: "exchange" (the token exchange of
\*            get_token), "submit" and "poll" (the answer to a request), "sleep",
\*            "loop" (the sleep is over); "returned", "raised" and "timeout"
\*            are its ends
\*   kind     the request the token is for
\*   elapsed  `elapsed` of _poll_until_done
\*   gets     history: the number of get_token() calls made
\*   sent     history: the requests sent, each with its token, the get_token()
\*            call that gave it, the time it was given and its expiry in the
\*            cache at that time
\*   result   the operation result of the last poll
\*   text     what recognize() returned
\*   error    the exception that left recognize() ("": none)
NoRecognition ==
    [pc |-> "idle", kind |-> "none", elapsed |-> 0, gets |-> 0, sent |-> <<>>,
     result |-> [response |-> FALSE, chunks |-> <<>>], text |-> "", error |-> ""]

InitRecognize == recognition = NoRecognition

\* get_token() has returned `bearer` and the request goes out with it.
Request(r, bearer, expiry) ==
    [r EXCEPT !.pc = r.kind,
              !.sent = Append(@, [kind |-> r.kind, bearer |-> bearer, call |-> r.gets,
                                  obtained |-> now, expiry |-> expiry])]

\* `headers = await self._get_headers()` and the request after it: get_token()
\* returns the cached token, or takes the lock and starts an exchange.
GetHeaders(r, kind) ==
    LET g == [r EXCEPT !.gets = @ + 1, !.kind = kind]
    IN  IF TokenValid
        THEN /\ recognition' = Request(g, token, expires_at)
             /\ UNCHANGED <<token, expires_at, locked, exchanges>>
        ELSE /\ recognition' = [g EXCEPT !.pc = "exchange"]
             /\ exchanges' = exchanges + 1
             /\ locked' = TRUE
             /\ UNCHANGED <<token, expires_at>>

\* The variables of the token cache that only its own operations change.
cacheHistory == <<waiters, cpc, req, result, ticks, cachedAtStart, forced, pendingForce,
                  disturbed>>

\* recognize() is called: _submit asks for its token.
RecognizeCalled ==
    /\ recognition.pc = "idle"
    /\ GetHeaders(recognition, "submit")
    /\ UNCHANGED <<now, cacheHistory>>
    /\ UNCHANGED notRecognizeVars

\* The exchange answers with a token: it is cached and the request goes out.
TokenExchanged ==
    /\ recognition.pc = "exchange"
    /\ token' = exchanges
    /\ expires_at' = ExpiryOf(now)
    /\ locked' = FALSE
    /\ recognition' = Request(recognition, exchanges, ExpiryOf(now))
    /\ UNCHANGED <<now, exchanges, cacheHistory>>
    /\ UNCHANGED notRecognizeVars

\* The exchange fails: IAMTokenError leaves recognize().
TokenExchangeFails ==
    /\ recognition.pc = "exchange"
    /\ token' = CachedAfterFailure(token)
    /\ locked' = FALSE
    /\ recognition' = [recognition EXCEPT !.pc = "raised", !.error = "IAMTokenError"]
    /\ UNCHANGED <<expires_at, now, exchanges, cacheHistory>>
    /\ UNCHANGED notRecognizeVars

\* The submit request is answered with an operation id: _poll_until_done starts
\* and asks for the token of its first request.
SubmitAccepted ==
    /\ recognition.pc = "submit"
    /\ GetHeaders([recognition EXCEPT !.elapsed = 0], "poll")
    /\ UNCHANGED <<now, cacheHistory>>
    /\ UNCHANGED notRecognizeVars

\* The submit request is answered with a status other than 200 or without id.
SubmitRejected ==
    /\ recognition.pc = "submit"
    /\ recognition' = [recognition EXCEPT !.pc = "raised", !.error = "SpeechKitError"]
    /\ UNCHANGED iamVars
    /\ UNCHANGED notRecognizeVars

\* The operation is not done: asyncio.sleep(POLL_INTERVAL) starts.
PollPending ==
    /\ recognition.pc = "poll"
    /\ recognition' = [recognition EXCEPT !.pc = "sleep"]
    /\ UNCHANGED iamVars
    /\ UNCHANGED notRecognizeVars

\* A poll is answered with a status other than 200 or with an error.
PollFails ==
    /\ recognition.pc = "poll"
    /\ recognition' = [recognition EXCEPT !.pc = "raised", !.error = "SpeechKitError"]
    /\ UNCHANGED iamVars
    /\ UNCHANGED notRecognizeVars

\* The operation is done: recognize() returns _extract_text of its result.
PollDone ==
    /\ recognition.pc = "poll"
    /\ \E res \in OperationResults :
          recognition' = [recognition EXCEPT !.pc = "returned", !.result = res,
                                             !.text = ExtractText(res)]
    /\ UNCHANGED iamVars
    /\ UNCHANGED notRecognizeVars

\* The sleep is over, POLL_INTERVAL seconds later.
SleepDone ==
    /\ recognition.pc = "sleep"
    /\ Len(recognition.sent) <= MaxPolls
    /\ now' = now + POLL_INTERVAL
    /\ recognition' = [recognition EXCEPT !.pc = "loop", !.elapsed = @ + POLL_INTERVAL]
    /\ UNCHANGED <<token, expires_at, locked, exchanges, cacheHistory>>
    /\ UNCHANGED notRecognizeVars

\* `while elapsed < MAX_POLL_TIME`: the next poll asks for its token.
PollAgain ==
    /\ recognition.pc = "loop"
    /\ IF recognition.elapsed < MAX_POLL_TIME
       THEN GetHeaders(recognition, "poll")
       ELSE /\ recognition' = [recognition EXCEPT !.pc = "timeout",
                                                  !.error = "SpeechKitError"]
            /\ UNCHANGED <<token, expires_at, locked, exchanges>>
    /\ UNCHANGED <<now, cacheHistory>>
    /\ UNCHANGED notRecognizeVars

NextRecognize ==
    \/ RecognizeCalled
    \/ TokenExchanged
    \/ TokenExchangeFails
    \/ SubmitAccepted
    \/ SubmitRejected
    \/ PollPending
    \/ PollFails
    \/ PollDone
    \/ SleepDone
    \/ PollAgain
    \/ Invalidate
    \/ Tick

(***************************************************************************)
(* AudioProcessor.split_file (audio.py)                                    *)
(***************************************************************************)
\* The limits a call is made with, and what the probes of the file return:
\* seconds, and sizes in megabytes.
MaxDurations == {30, 3600, 14400}

MaxSizeLimits == {100, 1024}

FileDurations == {0, 59, 1800, 3600, 3601, 7200, 14400, 14401}

FileSizes == {0, 100, 101, 500, 1024, 1025, 2048}

\* Mutant: only the duration is tested.
NeedsSplitByDuration(duration, file_size, max_duration, max_size) ==
    duration > max_duration

\* `needs_split`
NeedsSplit(duration, file_size, max_duration, max_size) ==
    duration > max_duration \/ file_size > max_size

\* Mutant: the size-based duration without the safety margin.
SegmentDurationNoMargin(duration, file_size, max_duration, max_size) ==
    LET size_based_duration == (duration * max_size) \div file_size
        limited == IF file_size > max_size /\ size_based_duration < max_duration
                   THEN size_based_duration
                   ELSE max_duration
    IN  IF limited < MIN_SEGMENT_SECONDS THEN MIN_SEGMENT_SECONDS ELSE limited

\* Mutant: no minimum.
SegmentDurationNoFloor(duration, file_size, max_duration, max_size) ==
    LET size_based_duration == (duration * max_size * 9) \div (file_size * 10)
    IN  IF file_size > max_size /\ size_based_duration < max_duration
        THEN size_based_duration
        ELSE max_duration

\* Mutant: the size of the file is not looked at.
SegmentDurationBySeconds(duration, file_size, max_duration, max_size) ==
    IF max_duration < MIN_SEGMENT_SECONDS THEN MIN_SEGMENT_SECONDS ELSE max_duration

\* `segment_duration` of lines 172-180; int(duration * size_ratio * 0.9) in
\* integer arithmetic.
SegmentDuration(duration, file_size, max_duration, max_size) ==
    LET size_based_duration == (duration * max_size * 9) \div (file_size * 10)
        limited == IF file_size > max_size /\ size_based_duration < max_duration
                   THEN size_based_duration
                   ELSE max_duration
    IN  IF limited < MIN_SEGMENT_SECONDS THEN MIN_SEGMENT_SECONDS ELSE limited

\* No call yet.
\*   pc                "probe" (get_duration), "ffmpeg" (the splitter);
\*                     "returned" and "raised" are the ends
\*   probed            get_duration and get_file_size have returned
\*   segment_duration  `segment_duration`
\*   made_dir          os.makedirs(output_dir) was called
\*   runs              the number of splitter runs started
\*   parts             the list returned
NoSplit ==
    [pc |-> "idle", max_duration |-> 0, max_size |-> 0, probed |-> FALSE,
     duration |-> 0, file_size |-> 0, segment_duration |-> 0, made_dir |-> FALSE,
     runs |-> 0, parts |-> <<>>]

InitSplit == splitting = NoSplit

\* split_file is called and awaits get_duration.
SplitFileCalled ==
    /\ splitting.pc = "idle"
    /\ \E md \in MaxDurations, ms \in MaxSizeLimits :
          splitting' = [splitting EXCEPT !.pc = "probe", !.max_duration = md,
                                         !.max_size = ms]
    /\ UNCHANGED notSplitVars

\* get_duration raises AudioProcessingError.
ProbeFails ==
    /\ splitting.pc = "probe"
    /\ splitting' = [splitting EXCEPT !.pc = "raised"]
    /\ UNCHANGED notSplitVars

\* get_duration and get_file_size return: the input path is returned, or the
\* directory is made and the splitter started.
Probed ==
    /\ splitting.pc = "probe"
    /\ \E d \in FileDurations, sz \in FileSizes :
          LET s == [splitting EXCEPT !.probed = TRUE, !.duration = d, !.file_size = sz]
          IN  splitting' =
                 IF ~NeedsSplit(d, sz, s.max_duration, s.max_size)
                 THEN [s EXCEPT !.pc = "returned", !.parts = <<"input">>]
                 ELSE [s EXCEPT !.pc = "ffmpeg",
                                !.segment_duration =
                                    SegmentDuration(d, sz, s.max_duration, s.max_size),
                                !.made_dir = TRUE,
                                !.runs = @ + 1]
    /\ UNCHANGED notSplitVars

\* The splitter has ended: the part files found are returned, none is an error.
SplitterDone ==
    /\ splitting.pc = "ffmpeg"
    /\ \E n \in 0..MaxParts :
          splitting' = IF n = 0 THEN [splitting EXCEPT !.pc = "raised"]
                       ELSE [splitting EXCEPT !.pc = "returned",
                                              !.parts = [k \in 1..n |-> "part"]]
    /\ UNCHANGED notSplitVars

\* The splitter exits with an error: AudioProcessingError.
SplitterFails ==
    /\ splitting.pc = "ffmpeg"
    /\ splitting' = [splitting EXCEPT !.pc = "raised"]
    /\ UNCHANGED notSplitVars

NextSplit ==
    \/ SplitFileCalled
    \/ ProbeFails
    \/ Probed
    \/ SplitterDone
    \/ SplitterFails

(***************************************************************************)
(* file_handler and the workers of a TaskQueue                             *)
(* src/src/bot/handlers.py, src/src/services/queue.py                      *)
(*                                                                         *)
(* The tasks are followed from the download of their file to the end of    *)
(* their _process_file call, the workers from start() to stop().          *)
(***************************************************************************)
ChatIds == {1, 2}

\* `file_name` of file_handler: "voice.ogg" for every voice message, else the
\* name the sender gave the file.
FileNames == {"voice.ogg"}

\* `local_path = os.path.join(tmp_dir, f"{chat_id}_{file_name}")`
LocalPath(chat_id, file_name) == <<chat_id, file_name>>

LocalPaths == {LocalPath(c, f) : c \in ChatIds, f \in FileNames}

\* The places of the list self._workers.
MaxPoolWorkers == NumWorkers * MaxStarts

PoolWorkers == 1..MaxPoolWorkers

\* A place of self._workers without a worker.
NoWorker == [st |-> "none", task |-> 0]

\* The state of the workers and of the temporary directory:
\*   workers   self._workers: for each place "none" (no worker), "idle" (at
\*             `await self._queue.get()`), "busy" (inside _process_file),
\*             "ended" (the loop was left), with the number of its task
\*   starts    the calls of start() so far
\*   stops     the calls of stop() so far
\*   queue     self._queue, as numbers of tasks
\*   tasks     the tasks created by file_handler, in order: chat_id,
\*             file_name, file_path, where the task is ("queued",
\*             "processing", "done", "failed", "cancelled")
\*   disk      for each local path the number of the task whose download is
\*             stored there (0: no such file)
NoPool ==
    [workers |-> [w \in PoolWorkers |-> NoWorker],
     starts |-> 0, stops |-> 0, queue |-> <<>>, tasks |-> <<>>,
     disk |-> [path \in LocalPaths |-> 0]]

InitPool == pool = NoPool

\* The places with a worker.
Live == {w \in PoolWorkers : pool.workers[w].st # "none"}

\* The workers inside _process_file.
Processing == {w \in PoolWorkers : pool.workers[w].st = "busy"}

\* start(): self._num_workers workers are created and appended to
\* self._workers, whatever the list holds.
PoolStart ==
    /\ pool.starts < MaxStarts
    /\ LET first == Cardinality(Live) + 1
           new == first..(first + NumWorkers - 1)
       IN  pool' = [pool EXCEPT
                       !.starts = @ + 1,
                       !.workers = [w \in PoolWorkers |->
                                       IF w \in new THEN [st |-> "idle", task |-> 0]
                                       ELSE @[w]]]
    /\ UNCHANGED notPoolVars

\* The finally block of _process_file for a set of tasks: os.remove of the
\* file_path of each, when it exists.
Removed(disk, ts) ==
    [path \in LocalPaths |->
        IF \E t \in ts : pool.tasks[t].file_path = path THEN 0 ELSE disk[path]]

\* stop(): every worker is cancelled and awaited, the list is cleared. A worker
\* inside _process_file runs the finally block of its task and leaves its loop.
PoolStop ==
    /\ pool.stops < MaxStops
    /\ LET ts == {pool.workers[w].task : w \in Processing}
       IN  pool' = [pool EXCEPT
                       !.stops = @ + 1,
                       !.workers = [w \in PoolWorkers |-> NoWorker],
                       !.tasks = [t \in DOMAIN @ |->
                                     IF t \in ts THEN [@[t] EXCEPT !.st = "cancelled"]
                                     ELSE @[t]],
                       !.disk = Removed(@, ts)]
    /\ UNCHANGED notPoolVars

\* file_handler: the file is downloaded to local_path (over a file that is
\* there), a ProcessingTask is created for it and put into the queue.
FileReceived ==
    /\ Len(pool.tasks) < MaxFiles
    /\ \E chat_id \in ChatIds, file_name \in FileNames :
          LET t == Len(pool.tasks) + 1
              local_path == LocalPath(chat_id, file_name)
          IN  pool' = [pool EXCEPT
                          !.disk[local_path] = t,
                          !.tasks = Append(@, [chat_id |-> chat_id,
                                               file_name |-> file_name,
                                               file_path |-> local_path,
                                               st |-> "queued"]),
                          !.queue = Append(@, t)]
    /\ UNCHANGED notPoolVars

\* `task = await self._queue.get()` returns; _process_file runs to its first
\* await.
PoolTake(w) ==
    /\ pool.workers[w].st = "idle"
    /\ pool.queue # <<>>
    /\ LET t == Head(pool.queue)
       IN  pool' = [pool EXCEPT
                       !.queue = Tail(@),
                       !.workers[w] = [st |-> "busy", task |-> t],
                       !.tasks[t].st = "processing"]
    /\ UNCHANGED notPoolVars

\* Mutant: the worker leaves its loop after a task that failed.
WorkerEndsOnFailure(outcome) == IF outcome = "failed" THEN "ended" ELSE "idle"

\* Where the worker is after _process_file has ended: the exception of a task
\* is caught by `except Exception`, and the loop goes on either way.
WorkerAfter(outcome) == "idle"

\* _process_file of the task of worker w has ended with `outcome`: its finally
\* block has removed file_path.
PoolEnded(w, outcome) ==
    LET t == pool.workers[w].task
    IN  [pool EXCEPT !.workers[w] = [st |-> WorkerAfter(outcome), task |-> 0],
                     !.tasks[t].st = outcome,
                     !.disk = Removed(@, {t})]

\* The _process_file call of worker w ends: extract_audio or convert_to_ogg
\* raises when there is no input file; with one, the call ends with the result
\* sent or with the exception of a stage.
PoolProcessed(w) ==
    /\ pool.workers[w].st = "busy"
    /\ LET t == pool.workers[w].task
           file == pool.disk[pool.tasks[t].file_path]
       IN  \E outcome \in {"done", "failed"} :
              /\ file = 0 => outcome = "failed"
              /\ pool' = PoolEnded(w, outcome)
    /\ UNCHANGED notPoolVars

WorkerStep(w) == PoolTake(w) \/ PoolProcessed(w)

NextPool ==
    \/ PoolStart
    \/ PoolStop
    \/ FileReceived
    \/ \E w \in PoolWorkers : PoolTake(w)
    \/ \E w \in PoolWorkers : PoolProcessed(w)

\* The same without stop().
NextPoolRunning ==
    \/ PoolStart
    \/ FileReceived
    \/ \E w \in PoolWorkers : PoolTake(w)
    \/ \E w \in PoolWorkers : PoolProcessed(w)

Init == InitIAM /\ InitQueue /\ InitMonitor /\ InitPoll /\ InitGpt /\ InitJob
        /\ InitRecognize /\ InitSplit /\ InitPool

SpecIAM == Init /\ [][NextIAM]_vars

SpecQueue == Init /\ [][NextQueue]_vars

SpecMonitor == Init /\ [][NextMonitor]_vars

SpecPoll == Init /\ [][NextPoll]_vars

SpecGpt == Init /\ [][NextGpt]_vars

SpecJob == Init /\ [][NextJob]_vars

SpecRecognize == Init /\ [][NextRecognize]_vars

SpecSplit == Init /\ [][NextSplit]_vars

\* Every await of the call ends: the requests have timeouts (60 and 30
\* seconds) and the sleep is finite.
SpecPollEnds == Init /\ [][NextPoll]_vars /\ WF_vars(NextPoll)

SpecPool == Init /\ [][NextPool]_vars

\* The workers are never stopped, and the event loop runs every worker that
\* can take a step: every await of a worker returns or raises.
SpecPoolRunning ==
    /\ Init
    /\ [][NextPoolRunning]_vars
    /\ \A w \in PoolWorkers : WF_vars(WorkerStep(w))

(***************************************************************************)
(* Claims about the token cache, checked under SpecIAM.                    *)
(***************************************************************************)

\* C1: when get_token() calls run concurrently while no valid token is cached
\* and the exchange succeeds (no invalidate(), no failed exchange and no expiry
\* disturbs the run), exactly one exchange request is made, and every caller
\* receives the token of that one exchange.
C1_OneExchangeSameToken ==
    ~disturbed =>
        /\ exchanges <= 1
        /\ (\E c \in Callers : cpc[c] # "idle") => exchanges = 1
        /\ \A c \in Callers : cpc[c] = "returned" => result[c] = 1
        /\ \A c, d \in Callers :
              (cpc[c] = "returned" /\ cpc[d] = "returned") => result[c] = result[d]

\* Every caller has returned, all but one of them after waiting for the lock
\* (they started with nothing cached and sent no request of their own).
C1_Witness ==
    /\ ~disturbed
    /\ \A c \in Callers : cpc[c] = "returned" /\ cachedAtStart[c] = NoToken
    /\ Cardinality({c \in Callers : req[c] = 0}) = NumCallers - 1

\* C2: under every interleaving of get_token() and invalidate() calls, failed
\* exchanges included, at most one exchange request is in flight.
C2_AtMostOneInFlight ==
    Cardinality({c \in Callers : cpc[c] = "exchanging"}) <= 1

\* An exchange is in flight while another caller waits for the lock, after an
\* invalidate() and a failed exchange.
C2_Witness ==
    /\ \E c \in Callers : cpc[c] = "exchanging"
    /\ \E c \in Callers : cpc[c] = "waiting"
    /\ \E c \in Callers : cpc[c] = "raised"
    /\ pendingForce

\* C3: the first get_token() call started after invalidate() returned performs
\* a new exchange, and returns no token that was cached before the call
\* started. (The statement as claimed; the code does not satisfy it.)
C3_InvalidateForcesExchange ==
    \A c \in Callers :
        (forced[c] /\ cpc[c] \in {"returned", "raised"}) =>
            /\ req[c] # 0
            /\ cpc[c] = "returned" =>
                  (result[c] # cachedAtStart[c] \/ cachedAtStart[c] = NoToken)

(***************************************************************************)
(* Claims about the task queue and its workers, checked under SpecQueue.   *)
(* Tasks are numbered in the order of their enqueue() calls.               *)
(***************************************************************************)

\* C4: tasks are dequeued in the order in which they were enqueued, across all
\* workers: a task is taken only after every task enqueued before it.
C4_FifoAcrossWorkers ==
    /\ \A m, n \in DOMAIN taken : m < n => taken[m] < taken[n]
    /\ \A b \in Range(taken) : \A a \in 1..(b - 1) : a \in Range(taken)

\* Two tasks were both waiting in the queue, and two different workers took them.
C4_Witness ==
    /\ created >= 2 /\ task[2].takenBefore = 0
    /\ \E w, v \in Workers : w # v /\ wjob[w] = 1 /\ wjob[v] = 2

\* C5 as claimed: every depth is at least 1, the second enqueue returns 2, and the
\* depths of successive enqueue() calls are strictly increasing, whatever the
\* workers dequeue in between.
C5_DepthsStrictlyIncreasing ==
    \A j \in 1..created :
        /\ task[j].position >= 1
        /\ j = 1 => task[j].position = 1
        /\ j = 2 => task[j].position = 2
        /\ j > 1 => task[j - 1].position < task[j].position

\* C5 as amended: enqueue() returns the depth at the moment of insertion, the
\* number of tasks enqueued so far (this one included) less the number already
\* dequeued. It is at least 1, it is 1 exactly when the queue was empty, and it
\* is one more than the depth the previous enqueue() returned when no task was
\* dequeued between the two calls.
C5_DepthAtInsertion ==
    \A j \in 1..created :
        /\ task[j].position = j - task[j].takenBefore
        /\ task[j].position >= 1
        /\ task[j].position = 1 <=> task[j].takenBefore = j - 1
        /\ (j > 1 /\ task[j].takenBefore = task[j - 1].takenBefore)
              => task[j].position = task[j - 1].position + 1

\* The first task was dequeued before the second enqueue(), which returned 1 again.
C5_Witness ==
    /\ created >= 2
    /\ task[1].position = 1
    /\ task[2].takenBefore = 1 /\ task[2].position = 1

\* C6: a task is dequeued by at most one worker and its pipeline runs at most
\* once; a dequeued task never is in the queue again; and the active-task map
\* holds a task exactly while a worker is processing it, from the dequeue to the
\* end of its processing (success, failure notification sent, or cancellation).
C6_OneWorkerOneRun ==
    /\ \A m, n \in DOMAIN taken : m # n => taken[m] # taken[n]
    /\ \A m, n \in DOMAIN queue : m # n => queue[m] # queue[n]
    /\ Range(queue) \cap Range(taken) = {}
    /\ \A w, v \in Workers : (w # v /\ wjob[w] # NoJob) => wjob[w] # wjob[v]
    /\ \A w \in Workers : wjob[w] # NoJob <=> wpc[w] \in PipelinePcs \cup {"msg_fail"}
    /\ active = {wjob[w] : w \in Workers} \ {NoJob}
    /\ \A j \in Jobs :
          task[j].outcome \in {"succeeded", "cancelled"} => j \notin active

\* One task has failed and left the map while the other worker still holds its task.
C6_Witness ==
    /\ task[1].outcome = "failed" /\ 1 \notin active
    /\ 2 \in active
    /\ \E w \in Workers : wjob[w] = 2 /\ wpc[w] = "recognize"

\* The stage events of a task with k segments when nothing fails.
StageOrder(k) ==
    [n \in 1..k |-> <<"upload", n>>]
        \o [n \in 1..(2 * k) |-> IF n % 2 = 1 THEN <<"rec_start", (n + 1) \div 2>>
                                              ELSE <<"rec_end", n \div 2>>]
        \o << <<"analyze_start", 0>>, <<"analyze_end", 0>>, <<"persist_start", 0>>,
              <<"persist_end", 0>>, <<"notify_result", 0>> >>

IsPrefix(s, t) == Len(s) <= Len(t) /\ \A n \in 1..Len(s) : s[n] = t[n]

\* C7: within one task the stages run one after another: all uploads, then the
\* recognition of segments 1..k in order, each starting only after the one before
\* has returned, then analysis, persistence and the result notification. The
\* stage events of a task are always a prefix of that one order.
C7_StagesSequential ==
    \A w \in Workers :
        IsPrefix(frame[w].stages, StageOrder(Len(frame[w].parts)))

\* A task of two segments has gone through every stage.
C7_Witness ==
    \E w \in Workers :
        /\ wpc[w] = "msg_done"
        /\ Len(frame[w].parts) = 2
        /\ frame[w].stages = StageOrder(2)

\* The transcripts of segments 1..n as recognize() returned them, joined by one
\* space, first to last.
RECURSIVE SpaceJoined(_, _)
SpaceJoined(pairs, n) ==
    IF n = 0 THEN ""
    ELSE LET text == CHOOSE t \in Texts : <<n, t>> \in pairs
         IN IF n = 1 THEN text ELSE SpaceJoined(pairs, n - 1) \o " " \o text

\* C8: analyze() is called at most once for a task, exactly once when the task
\* has reached the analysis stage, and its input is the transcripts of all
\* segments of the task, each once, in segment order, joined by a single space.
C8_AnalyzeInput ==
    \A w \in Workers :
        LET fr == frame[w]
            n == Len(fr.parts)
        IN /\ Len(fr.analyzed) <= 1
           /\ wpc[w] \in {"analyze", "persist", "msg_result", "msg_done"}
                 => Len(fr.analyzed) = 1
           /\ fr.analyzed # <<>> =>
                 /\ \A k \in 1..n : Cardinality({p \in fr.heard : p[1] = k}) = 1
                 /\ \A p \in fr.heard : p[1] \in 1..n
                 /\ fr.analyzed[1] = SpaceJoined(fr.heard, n)

\* The analysis of a task of two segments, the second of them silent.
C8_Witness ==
    \E w \in Workers :
        /\ wpc[w] = "persist"
        /\ frame[w].heard = {<<1, "a">>, <<2, "">>}
        /\ frame[w].analyzed = <<"a ">>

Ended(j) == task[j].outcome \in {"succeeded", "failed", "cancelled"}

\* C9: for every task whose pipeline was started, the cleanup runs exactly once,
\* after the last stage that was executed, whether the task succeeded, failed or
\* was cancelled (no stage of a task runs once its cleanup has run); it calls
\* delete_file for every remote key that was uploaded and tries to remove every
\* local temporary file of the task that exists.
C9_CleanupOnce ==
    /\ \A j \in Jobs :
          /\ task[j].cleanups <= 1
          /\ Ended(j) <=> task[j].cleanups = 1
          /\ (j \in Range(taken) /\ \A w \in Workers : wjob[w] # j) => Ended(j)
    /\ \A w \in Workers :
          /\ wpc[w] \in PipelinePcs =>
                 (task[wjob[w]].outcome = "running" /\ ~frame[w].ended)
          /\ wpc[w] = "msg_fail" => frame[w].ended
          /\ frame[w].ended =>
                 /\ frame[w].keptKeys = {}
                 /\ frame[w].keptFiles = {}

\* A task was cancelled after both of its segments had been uploaded, and the
\* cleanup has called delete_file for both.
C9_Witness ==
    \E w \in Workers :
        /\ wpc[w] = "stopped"
        /\ frame[w].ended
        /\ Cardinality(frame[w].delAttempted) = 2
        /\ \E j \in Jobs : task[j].outcome = "cancelled" /\ task[j].cleanups = 1

\* C10: a task whose pipeline raised an error has exactly one failure
\* notification sent for it, and a task that succeeded has none.
C10_OneFailureNotification ==
    \A j \in Jobs :
        /\ task[j].errors > 0 => task[j].failNotes = 1
        /\ task[j].outcome = "succeeded" => task[j].failNotes = 0
        /\ task[j].failNotes <= 1

\* One task has failed and the other has succeeded.
C10_Witness ==
    /\ task[1].errors = 1 /\ task[1].failNotes = 1
    /\ task[2].outcome = "succeeded" /\ task[2].failNotes = 0

(***************************************************************************)
(* More claims about the token cache, checked under SpecIAM.               *)
(***************************************************************************)

\* C18: the token of an exchange that completes at time t is cached with the
\* expiry t + 3300. A get_token() call that finds a token cached and the time
\* before its expiry, when it is called or when it gets the lock, returns that
\* token and sends no request; a call that finds no token, or the time at or
\* after the expiry, goes for the lock and, holding it, sends a new exchange
\* request.
C18_ExpiryWithMargin ==
    [][\A c \in Callers :
          LET valid == token # NoToken /\ now < expires_at
              cached == /\ cpc'[c] = "returned"
                        /\ result'[c] = token
                        /\ exchanges' = exchanges
                        /\ req'[c] = req[c]
          IN /\ (cpc[c] = "idle" /\ cpc'[c] # "idle") =>
                    IF valid THEN cached ELSE cpc'[c] \in {"waiting", "exchanging"}
             /\ (cpc[c] = "waiting" /\ cpc'[c] # "waiting") =>
                    IF valid THEN cached ELSE cpc'[c] = "exchanging"
             /\ (cpc[c] # "exchanging" /\ cpc'[c] = "exchanging") =>
                    (exchanges' = exchanges + 1 /\ req'[c] = exchanges + 1)
             /\ (cpc[c] = "exchanging" /\ cpc'[c] = "returned") =>
                    /\ token' = req[c] /\ result'[c] = req[c]
                    /\ expires_at' = now + 3300
      ]_vars

\* A token cached at time 0 was returned from the cache at 3299, and at 3300 a
\* call has sent a second exchange request.
C18_Witness ==
    /\ now = 3300
    /\ token = 1 /\ expires_at = 3300
    /\ \E c \in Callers : cpc[c] = "returned" /\ req[c] = 0 /\ result[c] = 1
    /\ \E c \in Callers : cpc[c] = "exchanging" /\ req[c] = 2

\* C19: a get_token() call whose exchange fails raises IAMTokenError after
\* that one request, without another attempt, and releases the lock; no step
\* of the call, the failure included, writes the cached token or its expiry.
C19_FailureLeavesCache ==
    [][\A c \in Callers :
          /\ (cpc[c] = "exchanging" /\ cpc'[c] = "raised") =>
                 /\ token' = token /\ expires_at' = expires_at
                 /\ locked /\ ~locked'
                 /\ req[c] # 0 /\ req'[c] = req[c] /\ exchanges' = exchanges
          /\ (cpc[c] # "raised" /\ cpc'[c] = "raised") => cpc[c] = "exchanging"
          /\ cpc[c] = "raised" => (cpc'[c] = "raised" /\ req'[c] = req[c])
          /\ (cpc[c] # cpc'[c] /\ cpc'[c] \in {"waiting", "exchanging"}) =>
                 (token' = token /\ expires_at' = expires_at)
      ]_vars

\* An exchange has failed while an expired token was cached: the token is
\* still there, the lock is free.
C19_Witness ==
    /\ \E c \in Callers : cpc[c] = "raised" /\ req[c] = 2
    /\ token = 1 /\ expires_at = 3300 /\ now >= 3300
    /\ ~locked

\* C20 as claimed: every write to the cached token or its expiry is made by a
\* caller that holds the lock. (invalidate() writes both without the lock.)
C20_WritesUnderLock ==
    [][(token' # token \/ expires_at' # expires_at) =>
          (locked /\ \E c \in Callers : cpc[c] = "exchanging" /\ cpc'[c] = "returned")
      ]_vars

(***************************************************************************)
(* Claims about the timeout monitors, checked under SpecMonitor.           *)
(***************************************************************************)

\* C11 as claimed: at most one "taking longer than expected" notification is
\* sent for a job, however many segments it has. (The code does not satisfy
\* it: every segment gets a monitor of its own.)
C11_AtMostOneLongNote ==
    LongNotes(MaxParts) <= 1

\* C12: once the recognize() call of a segment has ended, with a transcript, an
\* error or a cancellation, its monitor is cancelled: it is not sleeping or
\* sending any more (it has ended, or only awaits the delivery of its
\* cancellation) and it sends no notification from then on; and no monitor
\* exists for a segment whose recognize() call has not started.
C12_WatcherCancelled ==
    \A i \in Segments :
        /\ RecognitionEnded(i) =>
               (watcher[i].st \notin {"sleeping", "sending"} /\ watcher[i].late = 0)
        /\ (i > rec.i \/ (i = rec.i /\ rec.pc = "msg")) => watcher[i] = NoWatcher
        /\ watcher[i].st \in {"sleeping", "sending"} =>
               (i = rec.i /\ rec.pc = "recognize")

\* The first recognition returned while its monitor was sending and the
\* monitor got its cancellation; the second recognition has failed while its
\* monitor slept.
C12_Witness ==
    /\ rec.k = 2 /\ rec.pc = "failed"
    /\ watcher[1] = [st |-> "cancelled", notes |-> 1, late |-> 0]
    /\ watcher[2].st = "cancelling" /\ watcher[2].notes = 0

(***************************************************************************)
(* Claims about _poll_until_done, checked under SpecPoll.                  *)
(***************************************************************************)
CeilDiv(a, b) == (a + b - 1) \div b

\* C13: an operation that never reports done or error makes _poll_until_done
\* send as many status requests as the maximum wait divided by the interval,
\* rounded up, and then raise the timeout error: 360 requests for a 5-second
\* interval and a 1800-second maximum wait, none when the maximum wait is 0;
\* and no call ever sends more than that.
C13_RequestsBeforeTimeout ==
    poll.pc # "idle" =>
        /\ poll.requests <= CeilDiv(poll.maxWait, poll.interval)
        /\ poll.pc = "timeout" =>
              /\ poll.requests = CeilDiv(poll.maxWait, poll.interval)
              /\ poll.pending = poll.requests
              /\ (poll.interval = 5 /\ poll.maxWait = 1800) => poll.requests = 360
              /\ poll.maxWait = 0 => poll.requests = 0

\* The call with the constants of the module has timed out after 360 requests.
C13_Witness ==
    /\ poll.pc = "timeout"
    /\ poll.interval = POLL_INTERVAL /\ poll.maxWait = MAX_POLL_TIME
    /\ poll.requests = 360

\* C14: _poll_until_done ends at the first response with an error payload (it
\* raises the recognition error) or a true completion flag (it returns the
\* response), the error taking precedence: every response before it was
\* neither, no request follows it, and every response that is neither is
\* followed by exactly one sleep before the next request.
C14_StopsAtFirstVerdict ==
    /\ poll.sleeps = poll.pending
    /\ poll.pc \in {"request", "returned", "error", "failed"} =>
           poll.requests = poll.pending + 1
    /\ poll.pc \in {"sleep", "timeout"} => poll.requests = poll.pending
    /\ poll.pc = "sleep" => (poll.last.ok /\ ~poll.last.error /\ ~poll.last.done)
    /\ poll.pc = "error" => (poll.last.ok /\ poll.last.error)
    /\ poll.pc = "returned" => (poll.last.ok /\ poll.last.done /\ ~poll.last.error)
    /\ (poll.requests > poll.pending /\ poll.pc # "request" /\ poll.last.ok) =>
           /\ poll.last.error => poll.pc = "error"
           /\ (poll.last.done /\ ~poll.last.error) => poll.pc = "returned"

\* The third response is the first that says done, after two sleeps.
C14_Witness ==
    /\ poll.pc = "returned"
    /\ poll.requests = 3 /\ poll.sleeps = 2
    /\ poll.last = [ok |-> TRUE, error |-> FALSE, done |-> TRUE]

(***************************************************************************)
(* Claims about analyze() and _split_text, checked under SpecGpt.          *)
(***************************************************************************)

\* The completion requests of a chunked analysis of n chunks that succeeds.
ChunkedRequests(n) == [k \in 1..n |-> "chunk"] \o <<"final">>

\* C15 as claimed: every text longer than the ceiling gets at least 2 chunk
\* requests and then exactly 1 summarization request, and a text that is not
\* blank and not longer than the ceiling gets exactly one request. (A blank
\* text longer than the ceiling gets none.)
C15_RequestsByLength ==
    gpt.pc \in {"returned", "placeholder"} =>
        /\ Len(transcription_text) > MAX_INPUT_CHARS =>
               /\ Len(gpt.chunks) >= 2
               /\ gpt.sent = ChunkedRequests(Len(gpt.chunks))
        /\ (Len(transcription_text) <= MAX_INPUT_CHARS /\ ~Blank(transcription_text)) =>
               gpt.sent = <<"single">>

\* C15 as amended: a text that is not blank and longer than the ceiling gets,
\* when every request succeeds, at least 2 chunk requests (one per chunk) and
\* then exactly 1 summarization request, sent after all of them; a text that
\* is not blank and not longer than the ceiling gets exactly one request; a
\* blank text gets none, whatever its length. At every moment the requests
\* sent are the beginning of that sequence.
C15_RequestsOfNonBlank ==
    LET long == Len(transcription_text) > MAX_INPUT_CHARS
        expected == IF Blank(transcription_text) THEN <<>>
                    ELSE IF long THEN ChunkedRequests(Len(gpt.chunks))
                    ELSE <<"single">>
    IN /\ gpt.pc \notin {"input", "split"} => IsPrefix(gpt.sent, expected)
       /\ gpt.pc \in {"returned", "placeholder"} => gpt.sent = expected
       /\ (gpt.pc = "returned" /\ long) => Len(gpt.chunks) >= 2
       /\ gpt.pc = "placeholder" <=>
              (gpt.pc \notin {"input", "split"} /\ Blank(transcription_text))

\* A text of three chunks has been analysed: three chunk requests, then the
\* summarization.
C15_Witness ==
    /\ gpt.pc = "returned"
    /\ Len(gpt.chunks) = 3
    /\ gpt.sent = <<"chunk", "chunk", "chunk", "final">>

\* The chunks from the k-th on, each without its first CHUNK_OVERLAP_CHARS
\* characters, concatenated.
RECURSIVE WithoutOverlaps(_, _)
WithoutOverlaps(cs, k) ==
    IF k > Len(cs) THEN <<>>
    ELSE Slice(cs[k].chars, CHUNK_OVERLAP_CHARS, Len(cs[k].chars))
             \o WithoutOverlaps(cs, k + 1)

\* C16: for every text, the first chunk of _split_text starts at the beginning
\* of the text, every chunk is the piece of the text at its start, every later
\* chunk starts exactly CHUNK_OVERLAP_CHARS characters before the end of the
\* chunk before it, and the first chunk followed by the later chunks without
\* their first CHUNK_OVERLAP_CHARS characters is the text.
C16_ChunksRebuildText ==
    LET cs == gpt.chunks
    IN (gpt.pc = "split" \/ cs # <<>>) =>
          /\ cs = <<>> <=> transcription_text = <<>>
          /\ cs # <<>> =>
                /\ cs[1].start = 0
                /\ cs[1].chars \o WithoutOverlaps(cs, 2) = transcription_text
          /\ \A k \in DOMAIN cs :
                cs[k].chars = Slice(transcription_text, cs[k].start,
                                    cs[k].start + Len(cs[k].chars))
          /\ \A k \in 2..Len(cs) :
                /\ cs[k].start = cs[k - 1].start + Len(cs[k - 1].chars)
                                    - CHUNK_OVERLAP_CHARS
                /\ Len(cs[k].chars) >= CHUNK_OVERLAP_CHARS

\* A text of three chunks, cut at a sentence boundary and then hard.
C16_Witness ==
    /\ gpt.pc = "split"
    /\ Len(gpt.chunks) = 3
    /\ gpt.chunks[1].chars = <<"a", "a", ".">>
    /\ Len(gpt.chunks[2].chars) = MAX_INPUT_CHARS + 1
    /\ gpt.chunks[3].start = 6

\* C17 as claimed: no chunk of _split_text is longer than the ceiling. (The
\* code does not satisfy it: a hard cut makes a chunk of MAX_INPUT_CHARS + 1
\* characters.)
C17_ChunkLengthBounded ==
    \A k \in DOMAIN gpt.chunks : Len(gpt.chunks[k].chars) <= MAX_INPUT_CHARS

(***************************************************************************)
(* Claims about one task through the worker's loop body, checked under     *)
(* SpecJob.                                                                *)
(***************************************************************************)
\* C21: a task whose pipeline completes has exactly one transcription record,
\* which carries the probed duration and the cost duration x rate; a task that
\* failed in a stage up to persistence has none; and the result and "done"
\* messages are sent only after the commit.
C21_OneRecordAfterSuccess ==
    /\ Len(job.records) <= 1
    /\ job.outcome = "succeeded" => Len(job.records) = 1
    /\ \A p \in DOMAIN job.records :
          /\ job.records[p].duration_seconds = job.duration
          /\ job.records[p].cost_rubles
                = job.records[p].duration_seconds * SPEECHKIT_COST_PER_SEC
    /\ job.cause \in {ErrorOf(st) : st \in JobStagePcs \cup {"upload"}}
          => job.records = <<>>
    /\ \A p \in DOMAIN job.log :
          job.log[p] \in {"msg_result", "msg_done"}
             => \E q \in 1..(p - 1) : job.log[q] = "commit"

C21_Witness ==
    /\ job.outcome = "succeeded"
    /\ job.duration = 120
    /\ job.records = <<[duration_seconds |-> 120, cost_rubles |-> 305040,
                        file_type |-> "audio"]>>
    /\ job.parts = 1
    /\ job.all_texts = <<"a">>

\* C22: when a step of the cleanup has raised, every step of the cleanup was
\* still attempted, a task whose pipeline completed has succeeded with no
\* failure message, and a task whose pipeline raised E is reported with E.
C22_CleanupFailuresIgnored ==
    job.failed # {} =>
       /\ job.attempted = CleanupSteps(job)
       /\ job.cause = job.raised
       /\ "msg_done" \in Range(job.log) =>
             /\ job.pc = "released"
             /\ job.outcome = "succeeded"
             /\ job.failText = ""
       /\ job.raised # "" =>
             /\ job.failText = FailureText(job.raised)
             /\ job.outcome \in {"none", "failed", "cancelled"}
             /\ job.pc = "released" /\ job.outcome = "failed"
                   => job.log[Len(job.log)] = "msg_fail"

C22_Witness ==
    /\ job.failed = {<<"delete_file", 1>>, <<"remove_ogg", 0>>}
    /\ job.attempted = <<<<"delete_file", 1>>, <<"delete_file", 2>>,
                          <<"remove_input", 0>>, <<"remove_ogg", 0>>,
                          <<"remove_part", 1>>, <<"remove_part", 2>>,
                          <<"rmtree", 0>>>>
    /\ job.raised = "Recognition failed"
    /\ job.outcome = "failed"

\* C23: the failure messages of two tasks of a worker have the same text,
\* whatever exceptions the two tasks failed with.
C23_SameFailureText ==
    (job.failText # "" /\ prevFailText # "") => job.failText = prevFailText

\* The stages and messages of a _process_file call that runs to its end, for
\* the kind of file and the number of parts of the task.
RECURSIVE RecognitionLog(_)
RecognitionLog(n) ==
    IF n = 0 THEN <<>> ELSE <<"msg_rec", "recognize">> \o RecognitionLog(n - 1)

FullLog(j) ==
    (IF j.video THEN <<"msg_extract">> ELSE <<>>)
    \o <<"convert", "duration", "split">>
    \o (IF j.parts > 1 THEN <<"msg_split">> ELSE <<>>)
    \o <<"msg_upload", "upload">>
    \o RecognitionLog(j.parts)
    \o <<"msg_analyze", "analyze", "commit", "msg_result", "msg_done">>

InPipeline(e) == e \notin {"cleanup", "msg_fail"}

\* C24: no exception of a message delivery reaches the pipeline or the worker:
\* whether or not a delivery failed, the stages and messages of the task follow
\* the one order of a run, a task ends as failed only by the exception of a
\* stage, and a task whose stages all returned ends as succeeded.
C24_SendFailuresSwallowed ==
    /\ job.raised # "Telegram error"
    /\ job.outcome # "died"
    /\ IsPrefix(SelectSeq(job.log, InPipeline), FullLog(job))
    /\ job.raised # "" => job.raised \in {ErrorOf(st) : st \in JobStagePcs \cup {"upload"}}
    /\ job.outcome = "succeeded" <=>
          /\ job.pc = "released"
          /\ job.log = FullLog(job) \o <<"cleanup">>

C24_Witness ==
    /\ job.undelivered
    /\ job.outcome = "succeeded"
    /\ job.parts = 2
    /\ Len(job.records) = 1

(***************************************************************************)
(* A claim about stop(), checked under SpecQueue.                          *)
(***************************************************************************)
\* What a step taken after the call of stop() does.
AbandonedStep ==
    phase \in {"stopping", "stopped"} =>
       /\ taken' = taken
       /\ IsPrefix(queue, queue')
       /\ \A w \in Workers : IsPrefix(frame'[w].stages, frame[w].stages)
       /\ \A j \in Jobs :
             task'[j].outcome # task[j].outcome
                => task'[j].outcome \in {"queued", "cancelled"}
       /\ phase' = "stopped" =>
             /\ workers' = {}
             /\ active' = {}
             /\ \A w \in Workers : wpc'[w] = "stopped" /\ wjob'[w] = NoJob
             /\ \A n \in DOMAIN queue' : task'[queue'[n]].outcome = "queued"

\* C25: from the call of stop() on, no worker takes a task from the queue,
\* no stage or message of a task in flight is executed, and no task ends
\* other than as cancelled; when stop() returns, every worker has ended, the
\* worker list and the active tasks are empty, and the queued tasks are still
\* in the queue.
C25_StopAbandons == [][AbandonedStep]_vars

C25_Witness ==
    /\ phase = "stopped"
    /\ queue # <<>>
    /\ \E j \in Jobs : task[j].outcome = "cancelled"
    /\ \E w \in Workers : frame[w].ended /\ frame[w].delAttempted # {}

(***************************************************************************)
(* More claims about analyze(), checked under SpecGpt.                     *)
(***************************************************************************)
\* C28: a call of analyze() with an empty text or a text of spaces only has
\* returned the placeholder, has made no completion request and has asked for
\* no token.
C28_BlankShortCircuits ==
    ((\A n \in DOMAIN transcription_text : transcription_text[n] = " ")
        /\ gpt.pc \notin {"input", "split"})
       => /\ gpt.pc = "placeholder"
          /\ gpt.out = Placeholder
          /\ gpt.sent = <<>>
          /\ gpt.tokens = 0
          /\ gpt.last = "none"

C28_Witness ==
    /\ transcription_text = <<" ", " ">>
    /\ gpt.pc = "placeholder"
    /\ gpt.out = Placeholder

\* The call has ended with YandexGPTError at the request for chunk gpt.i, or
\* at the only or the final request, and made no request after it.
Aborted ==
    /\ gpt.pc = "raised"
    /\ gpt.error = "YandexGPTError"
    /\ gpt.sent[Len(gpt.sent)] = "chunk" =>
          /\ Len(gpt.sent) = gpt.i
          /\ "final" \notin Range(gpt.sent)

\* C29 as stated: every answer with a status other than 200, without result,
\* without alternatives or with an alternative without message text makes
\* analyze() fail with YandexGPTError, and no request follows it.
C29_IncompleteAnswersFail ==
    gpt.last \in {"non200", "no_result", "no_alternatives", "no_text"} => Aborted

\* C29, amended: an answer with a status other than 200, without result or
\* without alternatives makes analyze() fail with YandexGPTError, and no request
\* follows it; an alternative without message text is taken as the empty answer
\* and analyze() goes on.
C29_AnswersWithoutAlternativesFail ==
    /\ gpt.last \in {"non200", "no_result", "no_alternatives"} => Aborted
    /\ gpt.error = "YandexGPTError"
          => gpt.last \in {"non200", "no_result", "no_alternatives"}
    /\ gpt.last = "no_text" =>
          /\ gpt.error # "YandexGPTError"
          /\ gpt.pc = "returned" => gpt.out = ""

C29_Witness ==
    /\ gpt.pc = "raised"
    /\ gpt.last = "no_alternatives"
    /\ Len(gpt.chunks) = 3
    /\ gpt.sent = <<"chunk", "chunk">>

(***************************************************************************)
(* Claims about recognize(), checked under SpecRecognize.                  *)
(***************************************************************************)
\* C26: the n-th request of a recognize() call carries the token returned by
\* the n-th get_token() call, made for it; the cache held that token as not
\* expired when it gave it; and a request made once the token of the request
\* before it has expired carries another token.
C26_TokenPerRequest ==
    /\ recognition.gets \in {Len(recognition.sent), Len(recognition.sent) + 1}
    /\ \A n \in DOMAIN recognition.sent :
          LET r == recognition.sent[n]
          IN  /\ r.call = n
              /\ r.bearer # NoToken
              /\ r.obtained < r.expiry
              /\ n > 1 =>
                    LET before == recognition.sent[n - 1]
                    IN  r.obtained >= before.expiry => r.bearer # before.bearer

C26_Witness ==
    /\ Len(recognition.sent) = 3
    /\ recognition.sent[2].kind = "poll"
    /\ recognition.sent[3].obtained >= recognition.sent[2].expiry
    /\ recognition.sent[3].bearer # recognition.sent[2].bearer
    /\ recognition.sent[1].bearer = recognition.sent[2].bearer

\* The texts of the first alternatives of chunks 1..n, each followed by a
\* space but the last; chunks without alternatives have none.
RECURSIVE FirstTextsUpTo(_, _)
FirstTextsUpTo(chunks, n) ==
    IF n = 0 THEN ""
    ELSE LET before == FirstTextsUpTo(chunks, n - 1)
             none == \A k \in 1..(n - 1) : chunks[k] = <<>>
         IN  IF chunks[n] = <<>> THEN before
             ELSE (IF none THEN "" ELSE before \o " ") \o TextOf(chunks[n][1])

\* C27: the text recognize() returns is made of the texts of the first
\* alternative of each chunk of the result, in chunk order, with one space
\* between two of them; it is empty for a result without chunks or without
\* response.
C27_ExtractTextJoins ==
    recognition.pc = "returned" =>
       LET res == recognition.result
       IN  /\ recognition.error = ""
           /\ (~res.response \/ res.chunks = <<>>) => recognition.text = ""
           /\ res.response =>
                 recognition.text = FirstTextsUpTo(res.chunks, Len(res.chunks))

C27_Witness ==
    /\ recognition.pc = "returned"
    /\ recognition.result.chunks = << << <<"b">>, <<"a">> >>, << <<"a">> >> >>
    /\ recognition.text = "b a"

(***************************************************************************)
(* A claim about split_file, checked under SpecSplit.                      *)
(***************************************************************************)
\* C30: once the file is probed, a duration and a size within the limits make
\* split_file return the input path alone, with no directory made and no
\* splitter run; a duration or a size above its limit makes it take the split
\* branch, which makes the directory and runs the splitter.
C30_SplitOnlyAboveLimits ==
    splitting.probed =>
       IF splitting.duration <= splitting.max_duration
          /\ splitting.file_size <= splitting.max_size
       THEN /\ splitting.pc = "returned"
            /\ splitting.parts = <<"input">>
            /\ ~splitting.made_dir
            /\ splitting.runs = 0
       ELSE /\ splitting.made_dir
            /\ splitting.runs = 1
            /\ splitting.parts # <<"input">>

C30_Witness ==
    /\ splitting.pc = "returned"
    /\ splitting.duration = splitting.max_duration
    /\ splitting.file_size = splitting.max_size
    /\ splitting.parts = <<"input">>

(***************************************************************************)
(* Claims about the segment duration of split_file, checked under          *)
(* SpecSplit.                                                              *)
(***************************************************************************)
Min2(a, b) == IF a <= b THEN a ELSE b

Max2(a, b) == IF a >= b THEN a ELSE b

\* The split branch was taken with a file above the size limit / within it.
SplitBySize == splitting.runs = 1 /\ splitting.file_size > splitting.max_size

\* duration x (max_size / file_size) x 0.9, in whole seconds.
Candidate == (splitting.duration * splitting.max_size * 9) \div (splitting.file_size * 10)

\* C31: in the split branch the segment duration is the smaller of the
\* duration limit and duration x (max_size / file_size) x 0.9 (in whole
\* seconds) when the size is above its limit, the duration limit otherwise,
\* and 60 when that is less than 60; it is 3600 (2 segments) for 7200 s, limit
\* 3600 s, 500 MB, limit 1 GB, and 810 (3 segments) for 1800 s, limit 14400 s,
\* 2 GB, limit 1 GB.
C31_SegmentDurationFormula ==
    splitting.runs = 1 =>
       LET d == splitting.duration
           sz == splitting.file_size
           md == splitting.max_duration
           ms == splitting.max_size
           seg == splitting.segment_duration
       IN  /\ seg = Max2(60, IF sz > ms THEN Min2(md, Candidate) ELSE md)
           /\ (d = 7200 /\ md = 3600 /\ sz = 500 /\ ms = 1024)
                 => seg = 3600 /\ CeilDiv(d, seg) = 2
           /\ (d = 1800 /\ md = 14400 /\ sz = 2048 /\ ms = 1024)
                 => seg = 810 /\ CeilDiv(d, seg) = 3

C31_Witness ==
    /\ splitting.pc = "ffmpeg"
    /\ splitting.duration = 1800 /\ splitting.max_duration = 14400
    /\ splitting.file_size = 2048 /\ splitting.max_size = 1024
    /\ splitting.segment_duration = 810

\* C32: the segment duration the splitter is run with is at least 60 seconds.
C32_SegmentAtLeastMinimum ==
    splitting.runs = 1 => splitting.segment_duration >= 60

C32_Witness ==
    /\ SplitBySize
    /\ Candidate < 60
    /\ splitting.max_duration > 60
    /\ splitting.segment_duration = 60

C33_NotificationBeforeCleanup ==
    \A p \in DOMAIN job.log :
       (job.raised # "" /\ job.log[p] = "cleanup") =>
          \E q \in 1..(p - 1) : job.log[q] = "msg_fail"

\* Every part of the task was recognized, each as the empty text.
EmptyTranscript ==
    /\ job.parts >= 1
    /\ Len(job.all_texts) = job.parts
    /\ \A p \in DOMAIN job.all_texts : job.all_texts[p] = ""

\* C40: a task whose parts, one or several, are all recognized as the empty
\* text does not fail in the analysis and makes no completion request; once
\* its record is saved, that is the one record of a completed task, with the
\* probed duration and its cost, and when its pipeline has run to the end it
\* has succeeded through every stage and message of a run, with no failure
\* message.
C40_EmptyTranscriptCompletes ==
    EmptyTranscript =>
       /\ job.requests = 0
       /\ job.cause # ErrorOf("analyze")
       /\ "analyze" \in Range(job.log) => job.analysis_text = Placeholder
       /\ "commit" \in Range(job.log) => job.records = <<Saved(job)>>
       /\ "msg_done" \in Range(job.log) =>
             /\ job.outcome = "succeeded"
             /\ job.log = FullLog(job) \o <<"cleanup">>
             /\ job.failText = ""

C40_Witness ==
    /\ job.all_texts = <<"", "">>
    /\ job.outcome = "succeeded"
    /\ job.requests = 0
    /\ Len(job.records) = 1
    /\ "msg_fail" \notin Range(job.log)

(***************************************************************************)
(* A claim about the progress of _split_text, checked under SpecGpt.       *)
(***************************************************************************)
\* C38: for every text _split_text returns, after at most one chunk per
\* character of the text; no chunk is empty, and every chunk after the first
\* starts at a higher index than the chunk before it.
C38_SplitTextProgresses ==
    LET cs == gpt.chunks
    IN  /\ Len(cs) <= Len(transcription_text)
        /\ \A k \in DOMAIN cs : cs[k].chars # <<>>
        /\ \A k \in DOMAIN cs : k > 1 => cs[k].start > cs[k - 1].start

C38_Witness ==
    /\ gpt.pc = "split"
    /\ Len(transcription_text) = MaxTextLen
    /\ Len(gpt.chunks) = 3
    /\ gpt.chunks[2].start = 2
    /\ gpt.chunks[3].start = 4

(***************************************************************************)
(* Claims about the local files of the tasks and about the number of       *)
(* workers, checked under SpecPool.                                        *)
(***************************************************************************)
\* The tasks that are queued or in processing.
Pending == {t \in DOMAIN pool.tasks : pool.tasks[t].st \in {"queued", "processing"}}

\* C34 as claimed: no two tasks that are queued or in processing have the
\* same local file path, and the file of every such task is on the disk. (The code does not satisfy it: the path is
\* made of chat_id and file_name alone.)
C34_LocalPathsNotShared ==
    /\ \A t1, t2 \in Pending :
          t1 # t2 => pool.tasks[t1].file_path # pool.tasks[t2].file_path
    /\ \A t \in Pending : pool.disk[pool.tasks[t].file_path] # 0

\* C35 as claimed: at most NumWorkers tasks are inside _process_file at the
\* same time. (The code does not satisfy it: a second start() adds NumWorkers
\* more workers.)
C35_AtMostNumWorkersJobs == Cardinality(Processing) <= NumWorkers

(***************************************************************************)
(* A claim about the progress of the workers, checked under                *)
(* SpecPoolRunning.                                                        *)
(***************************************************************************)
\* C36: with the workers started and never stopped, no worker ever leaves its
\* loop, and every task in the queue is eventually taken and its _process_file
\* run to its end, with the result or with a failure.
C36_EveryJobReachesOutcome ==
    /\ [](\A w \in PoolWorkers : pool.workers[w].st # "ended")
    /\ \A t \in 1..MaxFiles :
          (t \in DOMAIN pool.tasks /\ Live # {})
             ~> (t \in DOMAIN pool.tasks /\ pool.tasks[t].st \in {"done", "failed"})

\* One more task than workers: the worker of the last task has had a task
\* that failed.
C36_Witness ==
    /\ pool.starts = 1
    /\ pool.stops = 0
    /\ Len(pool.tasks) = NumWorkers + 1
    /\ \A t \in 1..NumWorkers : pool.tasks[t].st = "failed"
    /\ pool.tasks[NumWorkers + 1].st = "done"

(***************************************************************************)
(* A claim about the end of recognize(), checked under SpecPollEnds.       *)
(***************************************************************************)
\* The status requests of a call are bounded, and a recognize() call sends
\* one only after a submit answer with status 200 and an operation id; after
\* any other submit answer it has failed without one.
SubmitBeforePolls ==
    /\ poll.pc # "idle" => poll.requests <= CeilDiv(poll.maxWait, poll.interval)
    /\ poll.submitted /\ (poll.requests > 0 \/ poll.tokens > 1)
          => poll.submit.ok /\ poll.submit.id
    /\ poll.pc = "submit_failed" =>
          /\ ~(poll.submit.ok /\ poll.submit.id)
          /\ poll.requests = 0

\* The call has ended, in one of the ways the claim lists.
EndedAsListed ==
    poll.pc \in {"returned", "submit_failed", "failed", "error", "timeout"}

\* The call has ended by IAMTokenError.
EndedByTokenError == poll.pc = "token_error"

====
